---- MODULE Spec2Model ----
(***************************************************************************)
(* Cache-first retrieval engine and backfill job orchestrator of the       *)
(* Antarctic wind-feasibility service.                                     *)
(*                                                                         *)
(* Time is a count of ticks; a calendar month is TicksPerMonth ticks long  *)
(* and month k of year y is the month with index 12*y + (k-1).             *)
(***************************************************************************)
EXTENDS Integers, Sequences, FiniteSets, TLC

TicksPerMonth == 2
FirstMonth == 22
NumMonths == 4
DataMonths == 2
JobMonths == 3
MaxUpstreamErrors == 0
MaxMonotonic == 3
MaxFrameDays == 1501

NoneV == "None"

EmptyTable == [k \in {} |-> NoneV]

BagAdd(bag, k) ==
    [x \in DOMAIN bag \cup {k} |->
        IF x = k THEN (IF k \in DOMAIN bag THEN bag[k] + 1 ELSE 1) ELSE bag[x]]

VARIABLES pl_start, pl_end, pl_out, fetch_windows, measurements, now, req_station, gd,
          recovered, jobs, background_enabled, _query_job_threads, ex, resp,
          upstream_errors_left, monotonic, _request_lock, _last_request_monotonic,
          _rate_limited_until_monotonic, tg, http, _query_job_lock, th, pf, an

plannerVars == <<pl_start, pl_end, pl_out>>
storeVars == <<fetch_windows, measurements, now>>
jobVars == <<jobs, background_enabled, _query_job_threads, ex, resp, upstream_errors_left>>
clientVars == <<monotonic, _request_lock, _last_request_monotonic,
                _rate_limited_until_monotonic, tg, http>>
lockVars == <<_query_job_lock, th>>
framesVars == <<pf, an>>
nonDataVars == <<pl_start, pl_end, pl_out, jobs, background_enabled, _query_job_threads, ex, resp,
                 upstream_errors_left, clientVars, lockVars, framesVars>>
nonJobVars == <<pl_start, pl_end, pl_out, req_station, gd, recovered, clientVars, lockVars, framesVars>>
vars == <<pl_start, pl_end, pl_out, fetch_windows, measurements, now, req_station, gd,
          recovered, jobs, background_enabled, _query_job_threads, ex, resp,
          upstream_errors_left, monotonic, _request_lock, _last_request_monotonic,
          _rate_limited_until_monotonic, tg, http, _query_job_lock, th, pf, an>>

(* datetimes the model draws inputs from: November of year 1 onwards *)
MinTime == FirstMonth * TicksPerMonth
MaxTime == (FirstMonth + NumMonths) * TicksPerMonth
Times == MinTime .. MaxTime

(* request datetimes of the retrieval specification: inside DataMonths months *)
DataMaxTime == (FirstMonth + DataMonths) * TicksPerMonth
DataTimes == {t \in MinTime .. (DataMaxTime - 1) : t % TicksPerMonth <= 1}

Year(t) == (t \div TicksPerMonth) \div 12
Month(t) == ((t \div TicksPerMonth) % 12) + 1
MonthStart(y, m) == (12 * y + (m - 1)) * TicksPerMonth

start_of_month(value) == MonthStart(Year(value), Month(value))

next_month_start(value) ==
    LET base == start_of_month(value)
    IN  IF Month(base) = 12
        THEN MonthStart(Year(base) + 1, 1)
        ELSE MonthStart(Year(base), Month(base) + 1)

RECURSIVE split_loop_inclusive(_, _, _)
split_loop_inclusive(cursor, limit, windows) ==
    IF cursor <= limit
    THEN LET window_end == next_month_start(cursor)
         IN  split_loop_inclusive(window_end, limit, Append(windows, <<cursor, window_end>>))
    ELSE windows

RECURSIVE split_loop(_, _, _)
split_loop(cursor, limit, windows) ==
    IF cursor < limit
    THEN LET window_end == next_month_start(cursor)
         IN  split_loop(window_end, limit, Append(windows, <<cursor, window_end>>))
    ELSE windows

split_unguarded(start_utc, end_utc) ==
    split_loop(start_of_month(start_utc), next_month_start(end_utc), <<>>)

split_month_windows_covering_range(start_utc, end_utc) ==
    IF start_utc >= end_utc
    THEN <<>>
    ELSE split_loop(start_of_month(start_utc), next_month_start(end_utc), <<>>)

(* ---------------- stations (static catalogue) ---------------- *)

KnownAntarcticStations == {"89064", "89064R"}
UnknownStation == "00000"

_selectable_meteo_station_ids == {"89064"}

_assert_station_supported_by_antarctic_endpoint(station_id) ==
    station_id \in KnownAntarcticStations

(* ---------------- persistent store ---------------- *)

(* a measurement row; only the wind fields decide anything in the engine *)
Row(t, speed, direction) ==
    [measured_at_utc |-> t, speed_mps |-> speed, direction_deg |-> direction]

(* an upsert that first drops the station's stored rows *)
upsert_rows_replacing(table, station_id, rows) ==
    LET kept == {k \in DOMAIN table : k[1] # station_id}
        fresh == {<<station_id, rows[i].measured_at_utc>> : i \in 1..Len(rows)}
        lastOf(k) == CHOOSE i \in 1..Len(rows) :
                        /\ rows[i].measured_at_utc = k[2]
                        /\ \A j \in 1..Len(rows) : rows[j].measured_at_utc = k[2] => j <= i
    IN  [k \in kept \cup fresh |->
            IF k \in fresh
            THEN [speed_mps |-> rows[lastOf(k)].speed_mps,
                  direction_deg |-> rows[lastOf(k)].direction_deg]
            ELSE table[k]]

RECURSIVE upsert_rows(_, _, _)
upsert_rows(table, station_id, rows) ==
    IF rows = <<>>
    THEN table
    ELSE LET row == Head(rows)
             key == <<station_id, row.measured_at_utc>>
             merged == [k \in DOMAIN table \cup {key} |->
                          IF k = key
                          THEN [speed_mps |-> row.speed_mps, direction_deg |-> row.direction_deg]
                          ELSE table[k]]
         IN  upsert_rows(merged, station_id, Tail(rows))

FetchWindow(station_id, start_utc, end_utc, fetched_at, checked) ==
    [station_id |-> station_id, start_utc |-> start_utc, end_utc |-> end_utc,
     fetched_at_utc |-> fetched_at, direction_checked |-> checked]

SameWindowKey(r, station_id, start_utc, end_utc) ==
    r.station_id = station_id /\ r.start_utc = start_utc /\ r.end_utc = end_utc

upsert_fetch_window_unchecked(table, station_id, start_utc, end_utc, now_utc) ==
    {r \in table : ~SameWindowKey(r, station_id, start_utc, end_utc)}
        \cup {FetchWindow(station_id, start_utc, end_utc, now_utc, FALSE)}

(* the INSERT ... ON CONFLICT DO UPDATE on fetch_windows of upsert_measurements *)
upsert_fetch_window(table, station_id, start_utc, end_utc, now_utc) ==
    {r \in table : ~SameWindowKey(r, station_id, start_utc, end_utc)}
        \cup {FetchWindow(station_id, start_utc, end_utc, now_utc, TRUE)}

upsert_measurements_skip_empty(store, station_id, rows, start_utc, end_utc, now_utc) ==
    [measurements |-> upsert_rows(store.measurements, station_id, rows),
     fetch_windows |-> IF rows = <<>>
                       THEN store.fetch_windows
                       ELSE upsert_fetch_window(store.fetch_windows, station_id,
                                                start_utc, end_utc, now_utc)]

upsert_measurements(store, station_id, rows, start_utc, end_utc, now_utc) ==
    [measurements |-> upsert_rows(store.measurements, station_id, rows),
     fetch_windows |-> upsert_fetch_window(store.fetch_windows, station_id,
                                           start_utc, end_utc, now_utc)]

CoveringWindows(table, station_id, start_utc, end_utc) ==
    {r \in table : r.station_id = station_id
                   /\ r.start_utc <= start_utc /\ r.end_utc >= end_utc}

has_cached_fetch_window_strict(table, station_id, start_utc, end_utc) ==
    \E r \in table : r.station_id = station_id
                     /\ r.start_utc < start_utc /\ r.end_utc >= end_utc

has_cached_fetch_window(table, station_id, start_utc, end_utc) ==
    CoveringWindows(table, station_id, start_utc, end_utc) # {}

has_fresh_fetch_window(table, station_id, start_utc, end_utc, min_fetched_at_utc) ==
    LET covering == CoveringWindows(table, station_id, start_utc, end_utc)
    IN  /\ covering # {}
        /\ LET newest == CHOOSE r \in covering :
                            \A q \in covering : q.fetched_at_utc <= r.fetched_at_utc
           IN  newest.fetched_at_utc >= min_fetched_at_utc

is_fetch_window_direction_checked(table, station_id, start_utc, end_utc) ==
    LET covering == CoveringWindows(table, station_id, start_utc, end_utc)
    IN  /\ covering # {}
        /\ LET newest == CHOOSE r \in covering :
                            \A q \in covering : q.fetched_at_utc <= r.fetched_at_utc
           IN  newest.direction_checked

mark_fetch_window_direction_checked_only(table, station_id, start_utc, end_utc, now_utc) ==
    LET covering == CoveringWindows(table, station_id, start_utc, end_utc)
    IN  IF covering = {}
        THEN {FetchWindow(station_id, start_utc, end_utc, now_utc, TRUE)}
        ELSE {[r EXCEPT !.direction_checked = TRUE] : r \in covering}

mark_fetch_window_direction_checked(table, station_id, start_utc, end_utc, now_utc) ==
    LET updated == {IF r \in CoveringWindows(table, station_id, start_utc, end_utc)
                    THEN [r EXCEPT !.direction_checked = TRUE]
                    ELSE r : r \in table}
    IN  IF CoveringWindows(table, station_id, start_utc, end_utc) = {}
        THEN updated \cup {FetchWindow(station_id, start_utc, end_utc, now_utc, TRUE)}
        ELSE updated

(* keys of the rows SELECTed by get_measurements: both ends inclusive *)
get_measurements(table, station_id, start_utc, end_utc) ==
    {k \in DOMAIN table : k[1] = station_id /\ k[2] >= start_utc /\ k[2] <= end_utc}

(* ---------------- upstream weather source ---------------- *)

(* what fetch_station_data can answer for one requested window: a parsed row  *)
(* list (possibly empty), or an UpstreamServiceError carrying the HTTP status *)
OkRows(start_utc, end_utc) ==
    { <<>>,
      <<Row(start_utc + 1, "6.0", NoneV)>>,
      <<Row(start_utc + 1, "6.0", "180.0")>> }

UpstreamErrors == {"HTTP 429", "HTTP 503", "HTTP 404"}

FetchOutcomes(start_utc, end_utc) ==
    {[kind |-> "ok", rows |-> rows, detail |-> "none"] : rows \in OkRows(start_utc, end_utc)}
        \cup {[kind |-> "error", rows |-> <<>>, detail |-> d] : d \in UpstreamErrors}

(* ---------------- Retrieval Coordinator ---------------- *)

SelectedTypes == { {}, {"speed"}, {"speed", "direction"} }

(* the recovery test without its look at the direction_checked flag *)
_needs_direction_recovery_refresh_unguarded(table, rowsTable, station_id, start_utc, end_utc, selected_types, now_utc) ==
    LET include_all == selected_types = {}
        rows == get_measurements(rowsTable, station_id, start_utc, end_utc)
        rows_with_speed == {k \in rows : rowsTable[k].speed_mps # NoneV}
        has_direction == \E k \in rows_with_speed : rowsTable[k].direction_deg # NoneV
        marked == mark_fetch_window_direction_checked(table, station_id, start_utc,
                                                      end_utc, now_utc)
    IN  IF ~include_all /\ "direction" \notin selected_types
        THEN [refresh |-> FALSE, fetch_windows |-> table]
        ELSE IF station_id \notin _selectable_meteo_station_ids
        THEN [refresh |-> FALSE, fetch_windows |-> table]
        ELSE IF rows = {}
        THEN [refresh |-> FALSE, fetch_windows |-> marked]
        ELSE IF rows_with_speed = {}
        THEN [refresh |-> FALSE, fetch_windows |-> marked]
        ELSE IF has_direction
        THEN [refresh |-> FALSE, fetch_windows |-> marked]
        ELSE [refresh |-> TRUE, fetch_windows |-> table]

_needs_direction_recovery_refresh(table, rowsTable, station_id, start_utc, end_utc, selected_types, now_utc) ==
    LET include_all == selected_types = {}
        rows == get_measurements(rowsTable, station_id, start_utc, end_utc)
        rows_with_speed == {k \in rows : rowsTable[k].speed_mps # NoneV}
        has_direction == \E k \in rows_with_speed : rowsTable[k].direction_deg # NoneV
        marked == mark_fetch_window_direction_checked(table, station_id, start_utc,
                                                      end_utc, now_utc)
    IN  IF ~include_all /\ "direction" \notin selected_types
        THEN [refresh |-> FALSE, fetch_windows |-> table]
        ELSE IF station_id \notin _selectable_meteo_station_ids
        THEN [refresh |-> FALSE, fetch_windows |-> table]
        ELSE IF is_fetch_window_direction_checked(table, station_id, start_utc, end_utc)
        THEN [refresh |-> FALSE, fetch_windows |-> table]
        ELSE IF rows = {}
        THEN [refresh |-> FALSE, fetch_windows |-> marked]
        ELSE IF rows_with_speed = {}
        THEN [refresh |-> FALSE, fetch_windows |-> marked]
        ELSE IF has_direction
        THEN [refresh |-> FALSE, fetch_windows |-> marked]
        ELSE [refresh |-> TRUE, fetch_windows |-> table]

_split_upstream_windows(start_utc, end_utc) ==
    split_month_windows_covering_range(start_utc, end_utc)

(* bookkeeping predicates, stated on the tables themselves: the window has a  *)
(* fetch-window record; direction is wanted for a selectable station, the     *)
(* window's record is not direction_checked, and among its stored rows some   *)
(* have a speed and none of those has a direction                             *)
HasRecord(table, station_id, start_utc, end_utc) ==
    \E r \in table : SameWindowKey(r, station_id, start_utc, end_utc)

RecordChecked(table, station_id, start_utc, end_utc) ==
    \E r \in table : SameWindowKey(r, station_id, start_utc, end_utc) /\ r.direction_checked

DirectionWanted(station_id, selected_types) ==
    /\ selected_types = {} \/ "direction" \in selected_types
    /\ station_id \in {"89064"}

RecoveryCondition(table, rowsTable, station_id, start_utc, end_utc, selected_types) ==
    /\ DirectionWanted(station_id, selected_types)
    /\ HasRecord(table, station_id, start_utc, end_utc)
    /\ ~RecordChecked(table, station_id, start_utc, end_utc)
    /\ \E k \in DOMAIN rowsTable :
          /\ k[1] = station_id /\ start_utc <= k[2] /\ k[2] <= end_utc
          /\ rowsTable[k].speed_mps # NoneV
    /\ \A k \in DOMAIN rowsTable :
          (k[1] = station_id /\ start_utc <= k[2] /\ k[2] <= end_utc
             /\ rowsTable[k].speed_mps # NoneV) => rowsTable[k].direction_deg = NoneV

(* the call in flight on the synchronous request path, with its bookkeeping: *)
(* fetches[i] counts the upstream calls made for planned window i, persisted *)
(* is the set of planned windows this call upserted, was_cached[i] is what   *)
(* has_cached_fetch_window answered for window i, last is what the latest    *)
(* loop iteration did                                                        *)
IdleCall ==
    [pc |-> "idle", kind |-> "none", station_id |-> NoneV, start_utc |-> 0, end_utc |-> 0,
     selected_types |-> {}, windows |-> <<>>, index |-> 0, fetches |-> <<>>,
     persisted |-> {}, was_cached |-> <<>>, last |-> "none", error |-> "none",
     all_cached_at_start |-> FALSE, none_cached_at_start |-> FALSE,
     recovery_at_start |-> FALSE, records_at_start |-> 0, repeat |-> FALSE]

RejectedCall(kind, station_id, start_utc, end_utc, selected_types, error) ==
    [IdleCall EXCEPT !.pc = "raised", !.kind = kind, !.station_id = station_id,
                     !.start_utc = start_utc, !.end_utc = end_utc,
                     !.selected_types = selected_types, !.error = error]

SameRequest(call, kind, station_id, start_utc, end_utc, selected_types) ==
    /\ call.kind = kind /\ call.station_id = station_id
    /\ call.start_utc = start_utc /\ call.end_utc = end_utc
    /\ call.selected_types = selected_types

StartedCall(kind, station_id, start_utc, end_utc, selected_types) ==
    LET windows == _split_upstream_windows(start_utc, end_utc)
        cachedAt(i) == HasRecord(fetch_windows, station_id, windows[i][1], windows[i][2])
        recoveryAt(i) == RecoveryCondition(fetch_windows, measurements, station_id,
                                           windows[i][1], windows[i][2], selected_types)
    IN  [IdleCall EXCEPT
           !.pc = "loop", !.kind = kind, !.station_id = station_id,
           !.start_utc = start_utc, !.end_utc = end_utc,
           !.selected_types = selected_types, !.windows = windows, !.index = 1,
           !.fetches = [i \in 1..Len(windows) |-> 0],
           !.was_cached = [i \in 1..Len(windows) |-> "unseen"],
           !.all_cached_at_start = \A i \in 1..Len(windows) : cachedAt(i),
           !.none_cached_at_start = \A i \in 1..Len(windows) : ~cachedAt(i),
           !.recovery_at_start = \E i \in 1..Len(windows) : cachedAt(i) /\ recoveryAt(i),
           !.records_at_start = Cardinality(fetch_windows),
           !.repeat = /\ gd.pc = "done"
                      /\ SameRequest(gd, kind, station_id, start_utc, end_utc, selected_types)]

(* the call has returned or raised: control is back with the caller *)
CallReturns ==
    /\ gd.pc \in {"done", "raised"}
    /\ gd' = IdleCall
    /\ UNCHANGED <<fetch_windows, measurements, now, req_station, recovered, nonDataVars>>

(* entry of get_data / refresh_data_range: station and range validation, then planning *)
BeginCall(kind, station_id, start_utc, end_utc, selected_types) ==
    /\ gd' = IF ~_assert_station_supported_by_antarctic_endpoint(station_id)
             THEN RejectedCall(kind, station_id, start_utc, end_utc, selected_types,
                               "AppValidationError")
             ELSE IF start_utc >= end_utc
             THEN RejectedCall(kind, station_id, start_utc, end_utc, selected_types,
                               "ValueError")
             ELSE StartedCall(kind, station_id, start_utc, end_utc, selected_types)
    /\ UNCHANGED <<fetch_windows, measurements, now, req_station, recovered, nonDataVars>>

get_data ==
    /\ gd.pc = "idle"
    /\ \E station_id \in {req_station, UnknownStation}, start_utc \in DataTimes, end_utc \in DataTimes,
       selected_types \in SelectedTypes :
        BeginCall("get_data", station_id, start_utc, end_utc, selected_types)

(* the caller issues the request it has just been answered once more *)
get_data_again ==
    /\ gd.pc = "done" /\ gd.kind = "get_data"
    /\ BeginCall("get_data", gd.station_id, gd.start_utc, gd.end_utc, gd.selected_types)

refresh_data_range ==
    /\ gd.pc = "idle"
    /\ \E station_id \in {req_station, UnknownStation}, start_utc \in DataTimes, end_utc \in DataTimes :
        BeginCall("refresh_data_range", station_id, start_utc, end_utc, {})

NextWindow(call, last, cached) ==
    [call EXCEPT !.index = @ + 1,
                 !.pc = IF call.index = Len(call.windows) THEN "done" ELSE "loop",
                 !.last = last,
                 !.was_cached[call.index] = cached]

(* an upstream failure that the loop swallows, going on with the next window *)
swallow_upstream_error(call, cached, detail) ==
    [NextWindow(call, "error", cached) EXCEPT !.fetches[call.index] = @ + 1]

(* fetch_station_data raised: the exception leaves the loop and the call *)
raise_upstream_error(call, cached, detail) ==
    [call EXCEPT !.pc = "raised", !.error = "UpstreamServiceError", !.last = "error",
                 !.fetches[call.index] = @ + 1,
                 !.was_cached[call.index] = cached]

(* upstream answered: upsert_measurements, then on to the next window *)
FetchedWindow(call, cached, outcome, table) ==
    LET w == call.windows[call.index]
        stored == upsert_measurements([measurements |-> measurements, fetch_windows |-> table],
                                      call.station_id, outcome.rows, w[1], w[2], now)
    IN  /\ measurements' = stored.measurements
        /\ fetch_windows' = stored.fetch_windows
        /\ gd' = [NextWindow(call, IF outcome.rows = <<>> THEN "empty" ELSE "rows", cached)
                    EXCEPT !.fetches[call.index] = @ + 1,
                           !.persisted = @ \cup {call.index}]

FetchWindowStep(call, cached, table) ==
    \E outcome \in FetchOutcomes(call.windows[call.index][1], call.windows[call.index][2]) :
        IF outcome.kind = "error"
        THEN /\ gd' = raise_upstream_error(call, cached, outcome.detail)
             /\ fetch_windows' = table
             /\ UNCHANGED measurements
        ELSE FetchedWindow(call, cached, outcome, table)

(* the operations that read through get_data: get_data itself, and          *)
(* get_playback_frames (_rows_for_playback) and get_timeframe_analytics,    *)
(* which call it once they have validated the request                       *)
GetDataCallers == {"get_data", "get_playback_frames", "get_timeframe_analytics"}

(* one iteration of the window loop of get_data *)
get_data_window ==
    /\ gd.pc = "loop" /\ gd.kind \in GetDataCallers
    /\ LET w == gd.windows[gd.index]
           has_cached_window == has_cached_fetch_window(fetch_windows, gd.station_id, w[1], w[2])
           recovery == _needs_direction_recovery_refresh(
                           fetch_windows, measurements, gd.station_id, w[1], w[2],
                           gd.selected_types, now)
       IN  IF has_cached_window /\ ~recovery.refresh
           THEN /\ fetch_windows' = recovery.fetch_windows
                /\ gd' = NextWindow(gd, "cached", "cached")
                /\ UNCHANGED measurements
           ELSE FetchWindowStep(gd, IF has_cached_window THEN "cached" ELSE "missing",
                                fetch_windows)
    /\ recovered' = IF gd'.last \in {"empty", "rows"} /\ gd'.was_cached[gd.index] = "cached"
                    THEN BagAdd(recovered, <<gd.station_id, gd.windows[gd.index][1]>>)
                    ELSE recovered
    /\ UNCHANGED <<now, req_station, nonDataVars>>

(* one iteration of the window loop of refresh_data_range: always fetches *)
refresh_data_range_window ==
    /\ gd.pc = "loop" /\ gd.kind = "refresh_data_range"
    /\ LET w == gd.windows[gd.index]
       IN  FetchWindowStep(gd,
                           IF has_cached_fetch_window(fetch_windows, gd.station_id, w[1], w[2])
                           THEN "cached" ELSE "missing",
                           fetch_windows)
    /\ UNCHANGED <<now, req_station, recovered, nonDataVars>>


(* ---------------- Backfill Job Orchestrator ---------------- *)

(* program constants: attempts per window, windows per drive-by poll, and the *)
(* freshness interval of the current month (24 h, here one tick)              *)
max_attempts == 4
poll_max_windows == 2
current_month_freshness_hours == 1

JobIds == {"job-1"}
Executors == {"t1", "t2"}

(* request datetimes of the job specification: one per month of JobMonths months *)
JobMaxTime == (FirstMonth + JobMonths) * TicksPerMonth
JobTimes == {t \in MinTime .. (JobMaxTime - 1) : t % TicksPerMonth = 1}

(* the persisted job row; message, frame counts, the requested start and the *)
(* request's presentation options are not carried                            *)
EmptyPayload ==
    [job_id |-> NoneV, station_id |-> NoneV, effective_end_utc |-> 0,
     history_start_utc |-> 0, status |-> "none",
     total_windows |-> 0, cached_windows |-> 0, missing_windows |-> 0,
     completed_windows |-> 0, total_api_calls_planned |-> 0, completed_api_calls |-> 0,
     playback_ready |-> FALSE, error_detail |-> NoneV, windows_json |-> <<>>]

NoBulk == [is_none |-> TRUE, by_month |-> EmptyTable]

(* an executor of worker logic or a status request in flight; bulk_answer,  *)
(* upstream_calls and last_fetch record what the bulk pre-fetch answered,   *)
(* how many upstream calls the run has issued so far and the range of its   *)
(* latest per-window call; done_at_start is the number of windows that were *)
(* cached or complete in the job as the run read it                         *)
IdleExecutor ==
    [pc |-> "idle", job_id |-> NoneV, max_windows |-> <<>>, payload |-> EmptyPayload,
     index |-> 0, processed_windows |-> 0, bulk_rows_by_month |-> NoBulk,
     bulk_answer |-> "none", upstream_calls |-> 0, last_fetch |-> <<>>,
     done_at_start |-> 0]

NoResponse == [op |-> "none", error |-> "none"]

(* upstream may fail any number of times, or at most n times *)
AnyErrors == [limited |-> FALSE, left |-> 0]
AtMostErrors(n) == [limited |-> TRUE, left |-> n]

JobsIdle ==
    /\ upstream_errors_left = AnyErrors
    /\ jobs = EmptyTable
    /\ background_enabled = TRUE
    /\ _query_job_threads = EmptyTable
    /\ ex = [e \in Executors |-> IdleExecutor]
    /\ resp = NoResponse

upsert_analysis_query_job(table, payload) ==
    [k \in DOMAIN table \cup {payload.job_id} |->
        IF k = payload.job_id THEN payload ELSE table[k]]

get_analysis_query_job(table, job_id) ==
    IF job_id \in DOMAIN table THEN table[job_id] ELSE EmptyPayload

_assert_station_selectable_any(station_id) == TRUE

_assert_station_selectable(station_id) ==
    station_id \in _selectable_meteo_station_ids

_split_windows(start_utc, end_utc) ==
    split_month_windows_covering_range(start_utc, end_utc)

(* the cache test of create_query_job that trusts any covering record *)
window_has_cached_any_age(table, station_id, window_start, window_end, now_utc) ==
    has_cached_fetch_window(table, station_id, window_start, window_end)

(* the cache test of create_query_job: a window that ends after now is the   *)
(* current month and needs a record fetched within the freshness interval   *)
window_has_cached(table, station_id, window_start, window_end, now_utc) ==
    IF window_end > now_utc
    THEN has_fresh_fetch_window(table, station_id, window_start, window_end,
                                now_utc - current_month_freshness_hours)
    ELSE has_cached_fetch_window(table, station_id, window_start, window_end)

WindowState(window_start, window_end, has_cached) ==
    [startUtc |-> window_start, endUtc |-> window_end,
     status |-> IF has_cached THEN "cached" ELSE "pending",
     apiCallsPlanned |-> IF has_cached THEN 0 ELSE 2,
     apiCallsCompleted |-> 0, attempts |-> 0, errorDetail |-> NoneV]

CountWindows(windows, statuses) ==
    Cardinality({i \in 1..Len(windows) : windows[i].status \in statuses})

RECURSIVE SumApiCallsCompleted(_)
SumApiCallsCompleted(windows) ==
    IF windows = <<>> THEN 0
    ELSE Head(windows).apiCallsCompleted + SumApiCallsCompleted(Tail(windows))

(* the payload create_query_job persists *)
NewJobPayload(job_id, station_id, effective_end_utc, history_start_utc, window_states) ==
    LET total_windows == Len(window_states)
        cached_windows == CountWindows(window_states, {"cached"})
        missing_windows == total_windows - cached_windows
    IN  [EmptyPayload EXCEPT
           !.job_id = job_id, !.station_id = station_id,
           !.effective_end_utc = effective_end_utc,
           !.history_start_utc = history_start_utc,
           !.status = IF missing_windows = 0 THEN "complete" ELSE "pending",
           !.total_windows = total_windows,
           !.cached_windows = cached_windows,
           !.missing_windows = missing_windows,
           !.completed_windows = IF missing_windows # 0 THEN cached_windows ELSE total_windows,
           !.total_api_calls_planned = missing_windows * 2,
           !.playback_ready = (missing_windows = 0),
           !.windows_json = window_states]

(* threading.Thread.is_alive of the thread registered for the job *)
is_alive_never(registry, executors, job_id) == FALSE

is_alive(registry, executors, job_id) ==
    /\ job_id \in DOMAIN registry
    /\ executors[registry[job_id]].pc \notin {"idle", "poll"}
    /\ executors[registry[job_id]].job_id = job_id

IdleExecutors(executors) == {e \in Executors : executors[e].pc = "idle"}

LowestExecutor(S) == IF "t1" \in S THEN "t1" ELSE "t2"

StartedExecutor(job_id, max_windows) ==
    [IdleExecutor EXCEPT !.pc = "read", !.job_id = job_id, !.max_windows = max_windows]

(* the check-then-start under _query_job_lock, as one step; answers the *)
(* registry and the executors as they are afterwards                    *)
_start_query_job_thread(registry, executors, job_id) ==
    IF is_alive(registry, executors, job_id) \/ IdleExecutors(executors) = {}
    THEN [registry |-> registry, ex |-> executors]
    ELSE LET worker == LowestExecutor(IdleExecutors(executors))
         IN  [registry |-> [k \in DOMAIN registry \cup {job_id} |->
                               IF k = job_id THEN worker ELSE registry[k]],
              ex |-> [executors EXCEPT ![worker] = StartedExecutor(job_id, <<>>)]]

(* create_query_job with end_local given; the request is rejected before *)
(* anything is written                                                   *)
CreateRejected(station_id, start_local, end_local) ==
    \/ ~_assert_station_supported_by_antarctic_endpoint(station_id)
    \/ ~_assert_station_selectable(station_id)
    \/ start_local >= end_local

create_query_job ==
    /\ JobIds \ DOMAIN jobs # {}
    /\ \E station_id \in KnownAntarcticStations \cup {UnknownStation},
          start_local \in JobTimes, end_local \in JobTimes,
          history_start_local \in {<<>>, <<MinTime + 1>>, <<JobMaxTime - TicksPerMonth + 1>>} :
        IF CreateRejected(station_id, start_local, end_local)
        THEN /\ resp' = [op |-> "create_query_job", error |-> "AppValidationError"]
             /\ UNCHANGED <<jobs, _query_job_threads, ex>>
        ELSE LET requested_history_start ==
                     IF history_start_local = <<>> THEN start_local
                     ELSE IF history_start_local[1] > start_local THEN start_local
                     ELSE history_start_local[1]
                 windows == _split_windows(requested_history_start, end_local)
                 window_states ==
                     [i \in 1..Len(windows) |->
                        WindowState(windows[i][1], windows[i][2],
                                    window_has_cached(fetch_windows, station_id,
                                                      windows[i][1], windows[i][2], now))]
                 job_id == CHOOSE j \in JobIds : j \notin DOMAIN jobs
                 payload == NewJobPayload(job_id, station_id, end_local, requested_history_start,
                                          window_states)
                 started == _start_query_job_thread(_query_job_threads, ex, job_id)
             IN  /\ jobs' = upsert_analysis_query_job(jobs, payload)
                 /\ resp' = [op |-> "create_query_job", error |-> "none"]
                 /\ IF payload.missing_windows > 0 /\ background_enabled
                    THEN /\ _query_job_threads' = started.registry
                         /\ ex' = started.ex
                    ELSE UNCHANGED <<_query_job_threads, ex>>
    /\ UNCHANGED <<fetch_windows, measurements, now, background_enabled, upstream_errors_left, nonJobVars>>

(* get_query_job_status up to its read of the job: a pending or running job *)
(* sends the request on to start the thread (background execution) or to    *)
(* execute _run_query_job_worker itself                                     *)
get_query_job_status ==
    \E job_id \in JobIds :
        /\ IF job_id \notin DOMAIN jobs
           THEN /\ resp' = [op |-> "get_query_job_status", error |-> "AppValidationError"]
                /\ UNCHANGED <<_query_job_threads, ex>>
           ELSE /\ resp' = [op |-> "get_query_job_status", error |-> "none"]
                /\ IF jobs[job_id].status \notin {"pending", "running"}
                   THEN UNCHANGED <<_query_job_threads, ex>>
                   ELSE /\ IdleExecutors(ex) # {}
                        /\ ex' = [ex EXCEPT ![LowestExecutor(IdleExecutors(ex))] =
                                     IF background_enabled
                                     THEN [IdleExecutor EXCEPT !.pc = "poll", !.job_id = job_id]
                                     ELSE StartedExecutor(job_id, <<poll_max_windows>>)]
                        /\ UNCHANGED _query_job_threads
        /\ UNCHANGED <<jobs, fetch_windows, measurements, now, background_enabled, upstream_errors_left, nonJobVars>>

(* get_query_job_status with background execution, after its read: the call *)
(* of _start_query_job_thread; the request then answers                     *)
get_query_job_status_start(e) ==
    /\ ex[e].pc = "poll"
    /\ LET started == _start_query_job_thread(_query_job_threads,
                                              [ex EXCEPT ![e] = IdleExecutor], ex[e].job_id)
       IN  /\ _query_job_threads' = started.registry
           /\ ex' = started.ex
    /\ UNCHANGED <<jobs, resp, fetch_windows, measurements, now, background_enabled,
                   upstream_errors_left, nonJobVars>>

(* round(numerator / denominator) as Python's round does it: to the nearest *)
(* integer, a tie to the even one                                           *)
round(numerator, denominator) ==
    LET q == numerator \div denominator
        r == numerator % denominator
    IN  IF 2 * r < denominator THEN q
        ELSE IF 2 * r > denominator THEN q + 1
        ELSE IF q % 2 = 0 THEN q ELSE q + 1

_to_query_job_status_response_zero_without_calls(payload) ==
    [jobId |-> payload.job_id, status |-> payload.status,
     totalApiCallsPlanned |-> payload.total_api_calls_planned,
     completedApiCalls |-> payload.completed_api_calls,
     percent |-> IF payload.total_api_calls_planned > 0
                 THEN round(payload.completed_api_calls * 100 * 100,
                            payload.total_api_calls_planned)
                 ELSE 0]

(* the status projection; percent is a number of two decimals and is kept   *)
(* in hundredths: round(x, 2) is round(100 * x) / 100                       *)
_to_query_job_status_response(payload) ==
    LET total_calls == payload.total_api_calls_planned
        completed_calls == payload.completed_api_calls
    IN  [jobId |-> payload.job_id, status |-> payload.status,
         totalApiCallsPlanned |-> total_calls,
         completedApiCalls |-> completed_calls,
         percent |-> IF total_calls > 0
                     THEN round(completed_calls * 100 * 100, total_calls)
                     ELSE IF payload.status = "complete" THEN 100 * 100
                     ELSE 0]

_update_query_job_progress_skipped(payload) == payload

_update_query_job_progress(payload) ==
    LET completed_windows == CountWindows(payload.windows_json, {"cached", "complete"})
    IN  [payload EXCEPT
           !.completed_windows = completed_windows,
           !.completed_api_calls = SumApiCallsCompleted(payload.windows_json),
           !.playback_ready = (completed_windows = payload.total_windows)]

_is_retryable_upstream_error(detail) ==
    detail \in {"HTTP 500", "HTTP 502", "HTTP 503", "HTTP 504"}

is_rate_limited(detail) == detail = "HTTP 429"

(* the worker returns: the thread ends, or the polling request goes on to answer *)
Returned == IdleExecutor

(* position of the for loop after window index: the next window that is *)
(* neither cached nor complete, or past the end                         *)
NextOpenWindow(windows, index) ==
    LET open == {i \in (index + 1)..Len(windows) : windows[i].status \notin {"cached", "complete"}}
    IN  IF open = {} THEN Len(windows) + 1
        ELSE CHOOSE i \in open : \A k \in open : i <= k

(* the executor enters the loop body of window index, or leaves the loop; a *)
(* window whose attempts are used up skips the attempt loop                 *)
AtWindow(x, index) ==
    [x EXCEPT !.index = index,
              !.pc = IF index > Len(x.payload.windows_json) THEN "finish"
                     ELSE IF x.payload.windows_json[index].attempts < max_attempts
                     THEN "attempt" ELSE "progress"]

(* what upstream answers the worker for one window, and for the bulk pre-fetch *)
JobRows(start_utc) == { <<>>, <<Row(start_utc + 1, "6.0", "180.0")>> }

JobFetchOutcomes(start_utc) ==
    {[kind |-> "ok", rows |-> rows, detail |-> "none"] : rows \in JobRows(start_utc)}
        \cup {[kind |-> "error", rows |-> <<>>, detail |-> d] : d \in UpstreamErrors}

BulkMonths(payload) ==
    { {}, {start_of_month(payload.effective_end_utc)},
      {payload.windows_json[i].startUtc : i \in 1..Len(payload.windows_json)} }

RECURSIVE RowsOfMonths(_)
RowsOfMonths(S) ==
    IF S = {} THEN <<>>
    ELSE LET m == CHOOSE x \in S : \A y \in S : x <= y
         IN  <<Row(m + 1, "6.0", "180.0")>> \o RowsOfMonths(S \ {m})

(* the bulk call raises, or answers rows of some months (of none: no rows) *)
BulkOutcomes(payload) ==
    {[kind |-> "raised", all_rows |-> <<>>]} \cup
    {[kind |-> IF S = {} THEN "empty" ELSE "rows", all_rows |-> RowsOfMonths(S)] :
        S \in BulkMonths(payload)}

(* the rows of the bulk answer by the month of measured_at_utc *)
partition_by_month(all_rows) ==
    LET month_of(i) == start_of_month(all_rows[i].measured_at_utc)
    IN  [m \in {month_of(i) : i \in 1..Len(all_rows)} |->
            SelectSeq(all_rows, LAMBDA r : start_of_month(r.measured_at_utc) = m)]

bulk_rows_by_month_of_never(answer) == NoBulk

bulk_rows_by_month_of_any_answer(answer) ==
    IF answer.kind # "raised"
    THEN [is_none |-> FALSE, by_month |-> partition_by_month(answer.all_rows)]
    ELSE NoBulk

(* bulk_rows_by_month once the try block is over: the partition when the call *)
(* answered rows, otherwise None                                             *)
bulk_rows_by_month_of(answer) ==
    IF answer.kind # "raised" /\ answer.all_rows # <<>>
    THEN [is_none |-> FALSE, by_month |-> partition_by_month(answer.all_rows)]
    ELSE NoBulk

BulkRowsOf(bulk, start_utc) ==
    IF start_of_month(start_utc) \in DOMAIN bulk.by_month
    THEN bulk.by_month[start_of_month(start_utc)] ELSE <<>>

(* _run_query_job_worker, first lines: read the job; a missing, complete or *)
(* failed job ends the worker                                               *)
(* the failures upstream still has in store for the workers, after one more *)
ErrorsLeftAfter(budget) ==
    IF budget.limited THEN [budget EXCEPT !.left = @ - 1] ELSE budget

WorkerReturnsAtOnce_missing_only(payload) == payload.status = "none"

WorkerReturnsAtOnce_running_too(payload) ==
    payload.status \in {"none", "complete", "failed", "running"}

WorkerReturnsAtOnce(payload) == payload.status \in {"none", "complete", "failed"}

worker_read(e) ==
    /\ ex[e].pc = "read"
    /\ LET payload == get_analysis_query_job(jobs, ex[e].job_id)
       IN  ex' = [ex EXCEPT ![e] =
                    IF WorkerReturnsAtOnce(payload)
                    THEN Returned
                    ELSE [@ EXCEPT !.pc = "start",
                                   !.payload = [payload EXCEPT !.status = "running"],
                                   !.done_at_start =
                                       CountWindows(payload.windows_json,
                                                    {"cached", "complete"})]]
    /\ UNCHANGED <<jobs, _query_job_threads, resp, fetch_windows, measurements, now,
                   background_enabled, upstream_errors_left, nonJobVars>>

(* the upsert of status running, then the bulk pre-fetch (an upstream call, *)
(* whose failure or empty answer leaves bulk_rows_by_month None)            *)
worker_start(e) ==
    /\ ex[e].pc = "start"
    /\ jobs' = upsert_analysis_query_job(jobs, ex[e].payload)
    /\ IF ex[e].payload.windows_json = <<>>
       THEN /\ ex' = [ex EXCEPT ![e].pc = "no_windows"]
            /\ UNCHANGED upstream_errors_left
       ELSE \E answer \in BulkOutcomes(ex[e].payload) :
               /\ answer.kind = "raised" =>
                      ~(upstream_errors_left.limited /\ upstream_errors_left.left = 0)
               /\ upstream_errors_left' =
                      IF answer.kind = "raised" THEN ErrorsLeftAfter(upstream_errors_left)
                      ELSE upstream_errors_left
               /\ ex' = [ex EXCEPT ![e] =
                            AtWindow([@ EXCEPT !.bulk_rows_by_month = bulk_rows_by_month_of(answer),
                                               !.bulk_answer = answer.kind,
                                               !.upstream_calls = @ + 1],
                                     NextOpenWindow(@.payload.windows_json, 0))]
    /\ UNCHANGED <<_query_job_threads, resp, fetch_windows, measurements, now,
                   background_enabled, nonJobVars>>

AttemptSucceeded(x, rows) ==
    LET w == x.payload.windows_json[x.index]
    IN  [x EXCEPT !.pc = "progress",
                  !.payload.windows_json[x.index] =
                      [w EXCEPT !.attempts = @ + 1, !.status = "complete",
                                !.apiCallsCompleted = w.apiCallsPlanned,
                                !.errorDetail = NoneV]]

(* the except branch without attempts += 1 *)
AttemptRetryable_uncounted(x, detail) ==
    LET w == x.payload.windows_json[x.index]
        payload == [x.payload EXCEPT !.windows_json[x.index] =
                       [w EXCEPT !.status = "pending", !.errorDetail = detail]]
    IN  [x EXCEPT !.payload = _update_query_job_progress(payload), !.pc = "attempt"]

(* the except branch up to the upsert of the retry state *)
AttemptRetryable(x, detail) ==
    LET w == x.payload.windows_json[x.index]
        payload == [x.payload EXCEPT !.windows_json[x.index] =
                       [w EXCEPT !.attempts = @ + 1, !.status = "pending",
                                 !.errorDetail = detail]]
    IN  [x EXCEPT !.payload = _update_query_job_progress(payload),
                  !.pc = IF w.attempts + 1 < max_attempts THEN "attempt" ELSE "fail"]

(* the window and the job are marked failed *)
FailedPayload(payload, index, attempts, detail) ==
    _update_query_job_progress(
        [payload EXCEPT !.windows_json[index] =
                            [@ EXCEPT !.attempts = attempts, !.status = "failed",
                                      !.errorDetail = detail],
                        !.status = "failed",
                        !.error_detail = detail])

classify_error_all_retryable(detail) == "retryable"

classify_error_all_fatal(detail) == "fatal"

classify_error(detail) ==
    IF is_rate_limited(detail) \/ _is_retryable_upstream_error(detail)
    THEN "retryable" ELSE "fatal"

(* the range of the per-window upstream call *)
WindowFetchRange(payload, index) ==
    <<payload.windows_json[index].startUtc, payload.windows_json[index].endUtc>>

(* the return after the job is marked failed *)
AfterFailure_next_window(x, payload) ==
    AtWindow([x EXCEPT !.payload = payload], NextOpenWindow(payload.windows_json, x.index))

AfterFailure(x, payload) == Returned

(* one pass of the attempt loop on window index: the rows come from the bulk *)
(* answer or from an upstream call, then upsert_measurements; an error is    *)
(* either persisted for a retry or fails the job                             *)
worker_attempt(e) ==
    /\ ex[e].pc = "attempt"
    /\ LET x == ex[e]
           w == x.payload.windows_json[x.index]
           store == [measurements |-> measurements, fetch_windows |-> fetch_windows]
           range == WindowFetchRange(x.payload, x.index)
           called == [x EXCEPT !.upstream_calls = @ + 1, !.last_fetch = range]
           Stored(y, rows) ==
               LET stored == upsert_measurements(store, x.payload.station_id, rows,
                                                 w.startUtc, w.endUtc, now)
               IN  /\ measurements' = stored.measurements
                   /\ fetch_windows' = stored.fetch_windows
                   /\ ex' = [ex EXCEPT ![e] = AttemptSucceeded(y, rows)]
                   /\ UNCHANGED <<jobs, upstream_errors_left>>
       IN  IF ~x.bulk_rows_by_month.is_none
           THEN Stored(x, BulkRowsOf(x.bulk_rows_by_month, w.startUtc))
           ELSE \E outcome \in JobFetchOutcomes(range[1]) :
                      IF outcome.kind = "ok"
                      THEN Stored(called, outcome.rows)
                      ELSE IF upstream_errors_left.limited /\ upstream_errors_left.left = 0
                      THEN FALSE
                      ELSE IF classify_error(outcome.detail) = "retryable"
                      THEN /\ upstream_errors_left' = ErrorsLeftAfter(upstream_errors_left)
                           /\ ex' = [ex EXCEPT ![e] = AttemptRetryable(called, outcome.detail)]
                           /\ jobs' = upsert_analysis_query_job(
                                          jobs, AttemptRetryable(called, outcome.detail).payload)
                           /\ UNCHANGED <<measurements, fetch_windows>>
                      ELSE LET failed == FailedPayload(x.payload, x.index, w.attempts + 1,
                                                      outcome.detail)
                           IN  /\ upstream_errors_left' = ErrorsLeftAfter(upstream_errors_left)
                               /\ jobs' = upsert_analysis_query_job(jobs, failed)
                               /\ ex' = [ex EXCEPT ![e] = AfterFailure(called, failed)]
                               /\ UNCHANGED <<measurements, fetch_windows>>
    /\ UNCHANGED <<_query_job_threads, resp, now, background_enabled, nonJobVars>>

(* the last attempt failed with a retryable error: the window and the job fail *)
worker_fail(e) ==
    /\ ex[e].pc = "fail"
    /\ LET x == ex[e]
           w == x.payload.windows_json[x.index]
           failed == FailedPayload(x.payload, x.index, w.attempts, w.errorDetail)
       IN  /\ jobs' = upsert_analysis_query_job(jobs, failed)
           /\ ex' = [ex EXCEPT ![e] = AfterFailure(x, failed)]
    /\ UNCHANGED <<_query_job_threads, resp, fetch_windows, measurements, now,
                   background_enabled, upstream_errors_left, nonJobVars>>

(* the window limit of the run: none when the bulk call answered rows *)
effective_max_windows_never(x) == <<>>

effective_max_windows(x) ==
    IF ~x.bulk_rows_by_month.is_none THEN <<>> ELSE x.max_windows

(* after the attempt loop: progress is recomputed and persisted; a drive-by *)
(* executor that has processed max_windows windows stops here               *)
worker_progress(e) ==
    /\ ex[e].pc = "progress"
    /\ LET x == ex[e]
           payload == _update_query_job_progress(x.payload)
           done == payload.windows_json[x.index].status \in {"cached", "complete"}
           processed == IF done THEN x.processed_windows + 1 ELSE x.processed_windows
           stop == done /\ effective_max_windows(x) # <<>>
                        /\ processed >= effective_max_windows(x)[1]
       IN  /\ jobs' = upsert_analysis_query_job(jobs, payload)
           /\ ex' = [ex EXCEPT ![e] =
                        IF stop
                        THEN IF payload.completed_windows < payload.total_windows
                             THEN [x EXCEPT !.payload = payload, !.pc = "yield",
                                            !.processed_windows = processed]
                             ELSE Returned
                        ELSE AtWindow([x EXCEPT !.payload = payload,
                                                !.processed_windows = processed],
                                      NextOpenWindow(payload.windows_json, x.index))]
    /\ UNCHANGED <<_query_job_threads, resp, fetch_windows, measurements, now,
                   background_enabled, upstream_errors_left, nonJobVars>>

(* the drive-by executor leaves the job running for the next poll *)
worker_yield(e) ==
    /\ ex[e].pc = "yield"
    /\ jobs' = upsert_analysis_query_job(jobs, [ex[e].payload EXCEPT !.status = "running"])
    /\ ex' = [ex EXCEPT ![e] = Returned]
    /\ UNCHANGED <<_query_job_threads, resp, fetch_windows, measurements, now,
                   background_enabled, upstream_errors_left, nonJobVars>>

(* the loop is over (or there were no windows): the job is marked complete *)
worker_complete(e) ==
    /\ ex[e].pc \in {"finish", "no_windows"}
    /\ LET marked == [ex[e].payload EXCEPT !.status = "complete", !.playback_ready = TRUE]
       IN  jobs' = upsert_analysis_query_job(
                       jobs, IF ex[e].pc = "finish"
                             THEN _update_query_job_progress(marked) ELSE marked)
    /\ ex' = [ex EXCEPT ![e] = Returned]
    /\ UNCHANGED <<_query_job_threads, resp, fetch_windows, measurements, now,
                   background_enabled, upstream_errors_left, nonJobVars>>

PlannerIdle == [kind |-> "idle", value |-> <<>>]

(* ---------------- playback frames ---------------- *)

NoFrames == [pc |-> "idle", start_local |-> 0, end_local |-> 0, step |-> "10m",
             effective_step |-> "10m", frames |-> 0]

(* an analysis computation: its inputs and, once it has returned, its result *)
NoAnalysis == [pc |-> "idle"]

FramesIdle == pf = NoFrames /\ an = NoAnalysis

(* ---------------- the threads around _query_job_lock ---------------- *)

(* threads that serve requests, and threads that _start_query_job_thread starts *)
RequestThreads == {"request-1", "request-2"}

WorkerThreads == {"worker-1", "worker-2"}

NotStarted == [pc |-> "idle", job_id |-> NoneV]

LockIdle ==
    /\ _query_job_lock = "free"
    /\ th = [t \in RequestThreads \cup WorkerThreads |-> NotStarted]

(* ---------------- AEMET client: the request throttle ---------------- *)

(* the threads that call AemetClient: a job worker and a request handler *)
Callers == {"worker", "request"}

NotCalling == [pc |-> "idle", wake_at |-> 0, issued_at |-> 0, slept |-> FALSE]

NoHttp == [completed |-> <<>>, cooldown_until |-> 0, status |-> 0, by |-> NoneV,
           retry_after |-> [kind |-> "absent", value |-> 0]]

(* the class attributes of AemetClient as the class body leaves them, no    *)
(* thread inside _throttled_get                                             *)
ClientIdle ==
    /\ monotonic = 0
    /\ _request_lock = "free"
    /\ _last_request_monotonic = 0
    /\ _rate_limited_until_monotonic = 0
    /\ tg = [c \in Callers |-> NotCalling]
    /\ http = NoHttp

(* the store the service opens may hold fetch-window records of earlier runs: *)
(* old ones, and for the last month also one fetched just now                 *)
JobMonthStarts == {start_of_month(t) : t \in JobTimes}

InitJobs ==
    /\ pl_start = MinTime /\ pl_end = MinTime /\ pl_out = PlannerIdle
    /\ ClientIdle
    /\ LockIdle
    /\ FramesIdle
    /\ req_station = "89064"
    /\ gd = IdleCall
    /\ recovered = EmptyTable
    /\ now = JobMaxTime - 1
    /\ upstream_errors_left = AnyErrors
    /\ jobs = EmptyTable
    /\ background_enabled \in BOOLEAN
    /\ _query_job_threads = EmptyTable
    /\ ex = [e \in Executors |-> IdleExecutor]
    /\ resp = NoResponse
    /\ measurements = EmptyTable
    /\ \E earlier \in [JobMonthStarts -> {"none", "old", "recent"}] :
          /\ \A m \in JobMonthStarts : earlier[m] = "recent" => m + TicksPerMonth = JobMaxTime
          /\ fetch_windows =
                {FetchWindow("89064", m, next_month_start(m),
                             IF earlier[m] = "old" THEN MinTime ELSE now, TRUE) :
                    m \in {x \in JobMonthStarts : earlier[x] # "none"}}

(* a client polls again only once its previous poll has been answered; with *)
(* background execution a poll returns at once                              *)
SequentialPolls == background_enabled \/ \A e \in Executors : ex[e].pc = "idle"

NextJobs ==
    \/ create_query_job
    \/ (SequentialPolls /\ get_query_job_status)
    \/ \E e \in Executors : get_query_job_status_start(e)
    \/ \E e \in Executors : worker_read(e)
    \/ \E e \in Executors : worker_start(e)
    \/ \E e \in Executors : worker_attempt(e)
    \/ \E e \in Executors : worker_fail(e)
    \/ \E e \in Executors : worker_progress(e)
    \/ \E e \in Executors : worker_yield(e)
    \/ \E e \in Executors : worker_complete(e)

SpecJobs == InitJobs /\ [][NextJobs]_vars

(* status polls that overlap: the routes are plain functions run on the web  *)
(* server's thread pool, so that a second poll of a job can arrive while the *)
(* first is still executing the worker logic; background execution disabled, *)
(* the store empty at first, and upstream failing at most MaxUpstreamErrors  *)
(* times, which is too few for a window to use up its attempts               *)
InitPolls ==
    /\ pl_start = MinTime /\ pl_end = MinTime /\ pl_out = PlannerIdle
    /\ ClientIdle
    /\ LockIdle
    /\ FramesIdle
    /\ req_station = "89064"
    /\ gd = IdleCall
    /\ recovered = EmptyTable
    /\ now = JobMaxTime - 1
    /\ upstream_errors_left = AtMostErrors(MaxUpstreamErrors)
    /\ jobs = EmptyTable
    /\ background_enabled = FALSE
    /\ _query_job_threads = EmptyTable
    /\ ex = [e \in Executors |-> IdleExecutor]
    /\ resp = NoResponse
    /\ measurements = EmptyTable
    /\ fetch_windows = {}

NextPolls ==
    \/ create_query_job
    \/ get_query_job_status
    \/ \E e \in Executors : worker_read(e)
    \/ \E e \in Executors : worker_start(e)
    \/ \E e \in Executors : worker_attempt(e)
    \/ \E e \in Executors : worker_progress(e)
    \/ \E e \in Executors : worker_yield(e)
    \/ \E e \in Executors : worker_complete(e)

SpecPolls == InitPolls /\ [][NextPolls]_vars

(* the process ends while workers are running (the worker threads are daemon *)
(* threads, and a drive-by poll is cut off with its request); the registry   *)
(* is lost with the process, the persisted jobs and the store are kept       *)
process_restart ==
    /\ \E e \in Executors : ex[e].pc # "idle"
    /\ ex' = [e \in Executors |-> IdleExecutor]
    /\ _query_job_threads' = EmptyTable
    /\ UNCHANGED <<jobs, resp, fetch_windows, measurements, now, background_enabled,
                   upstream_errors_left, nonJobVars>>

(* the store is empty at first and upstream fails at most max_attempts times, *)
(* enough for one window to use up its attempts                              *)
InitRestarts ==
    /\ pl_start = MinTime /\ pl_end = MinTime /\ pl_out = PlannerIdle
    /\ ClientIdle
    /\ LockIdle
    /\ FramesIdle
    /\ req_station = "89064"
    /\ gd = IdleCall
    /\ recovered = EmptyTable
    /\ now = JobMaxTime - 1
    /\ upstream_errors_left = AtMostErrors(max_attempts)
    /\ jobs = EmptyTable
    /\ background_enabled \in BOOLEAN
    /\ _query_job_threads = EmptyTable
    /\ ex = [e \in Executors |-> IdleExecutor]
    /\ resp = NoResponse
    /\ measurements = EmptyTable
    /\ fetch_windows = {}

NextRestarts == NextJobs \/ process_restart

SpecRestarts == InitRestarts /\ [][NextRestarts]_vars

(* the jobs under fair scheduling: a thread or request that can take its next *)
(* step takes it, and without background execution the client keeps polling  *)
(* (one poll after the other); upstream never fails, or fails up to           *)
(* max_attempts times, enough for a window to use up its attempts            *)
InitLive ==
    /\ pl_start = MinTime /\ pl_end = MinTime /\ pl_out = PlannerIdle
    /\ ClientIdle
    /\ LockIdle
    /\ FramesIdle
    /\ req_station = "89064"
    /\ gd = IdleCall
    /\ recovered = EmptyTable
    /\ now = JobMaxTime - 1
    /\ upstream_errors_left \in {AtMostErrors(0), AtMostErrors(max_attempts)}
    /\ jobs = EmptyTable
    /\ background_enabled \in BOOLEAN
    /\ _query_job_threads = EmptyTable
    /\ ex = [e \in Executors |-> IdleExecutor]
    /\ resp = NoResponse
    /\ measurements = EmptyTable
    /\ fetch_windows = {}

FairWorkers ==
    \A e \in Executors :
        /\ WF_vars(get_query_job_status_start(e))
        /\ WF_vars(worker_read(e)) /\ WF_vars(worker_start(e))
        /\ WF_vars(worker_attempt(e)) /\ WF_vars(worker_fail(e))
        /\ WF_vars(worker_progress(e)) /\ WF_vars(worker_yield(e))
        /\ WF_vars(worker_complete(e))

ClientKeepsPolling ==
    WF_vars(~background_enabled /\ SequentialPolls /\ get_query_job_status)

SpecLive == InitLive /\ [][NextJobs]_vars /\ FairWorkers /\ ClientKeepsPolling

(* ---------------- Window Planner, called on its own ---------------- *)

InitPlanner ==
    /\ pl_start \in Times
    /\ pl_end \in Times
    /\ pl_out = PlannerIdle
    /\ ClientIdle
    /\ LockIdle
    /\ FramesIdle
    /\ fetch_windows = {}
    /\ measurements = EmptyTable
    /\ now = MaxTime
    /\ req_station = "89064"
    /\ gd = IdleCall
    /\ recovered = EmptyTable
    /\ JobsIdle

(* one call of split_month_windows_covering_range(pl_start, pl_end) *)
PlanWindows ==
    /\ pl_out.kind = "idle"
    /\ pl_out' = [kind |-> "return",
                  value |-> split_month_windows_covering_range(pl_start, pl_end)]
    /\ UNCHANGED <<pl_start, pl_end, fetch_windows, measurements, now, req_station, gd, recovered>>
    /\ UNCHANGED <<jobVars, clientVars, lockVars, framesVars>>

NextPlanner == PlanWindows

SpecPlanner == InitPlanner /\ [][NextPlanner]_vars

(* ---------------- retrieval against a persistent store ---------------- *)

(* the store outlives the process: besides an empty database the service may  *)
(* open one written before fetch_windows had the direction_checked column,    *)
(* whose records carry the column default 0                                   *)
LegacyMonths == {start_of_month(t) : t \in DataTimes}

LegacyRowKinds == {"absent", "speed_only", "speed_direction", "no_speed"}

LegacyRow(kind) ==
    CASE kind = "speed_only" -> [speed_mps |-> "6.0", direction_deg |-> NoneV]
      [] kind = "speed_direction" -> [speed_mps |-> "6.0", direction_deg |-> "180.0"]
      [] OTHER -> [speed_mps |-> NoneV, direction_deg |-> NoneV]

InitData ==
    /\ pl_start = MinTime /\ pl_end = MinTime /\ pl_out = PlannerIdle
    /\ ClientIdle
    /\ LockIdle
    /\ FramesIdle
    /\ now = DataMaxTime
    /\ req_station \in KnownAntarcticStations
    /\ gd = IdleCall
    /\ recovered = EmptyTable
    /\ JobsIdle
    /\ \E legacy \in [LegacyMonths -> {"none"} \cup LegacyRowKinds] :
          /\ fetch_windows = {FetchWindow(req_station, m, next_month_start(m), MinTime, FALSE) :
                                m \in {x \in LegacyMonths : legacy[x] # "none"}}
          /\ measurements = [k \in {<<req_station, m + 1>> : m \in
                                       {x \in LegacyMonths : legacy[x] \notin {"none", "absent"}}}
                               |-> LegacyRow(legacy[k[2] - 1])]

NextData ==
    \/ get_data
    \/ get_data_again
    \/ CallReturns
    \/ get_data_window
    \/ refresh_data_range
    \/ refresh_data_range_window

SpecData == InitData /\ [][NextData]_vars

(* ---------------- latest availability ---------------- *)

(* months probed behind the current one (_LATEST_AVAILABILITY_MAX_LOOKBACK_DAYS *)
(* is 720 days in the program)                                                  *)
LookbackMonths == 2

previous_month_start(value) ==
    LET base == start_of_month(value)
    IN  IF Month(base) = 1
        THEN MonthStart(Year(base) - 1, 12)
        ELSE MonthStart(Year(base), Month(base) - 1)

get_latest_measurement_timestamp(table, station_id) ==
    LET stamps == {k[2] : k \in {x \in DOMAIN table : x[1] = station_id}}
    IN  IF stamps = {}
        THEN [is_none |-> TRUE, value |-> 0]
        ELSE [is_none |-> FALSE, value |-> CHOOSE t \in stamps : \A u \in stamps : u <= t]

(* the months the probe loop visits, newest first *)
RECURSIVE ProbeWindows(_, _)
ProbeWindows(probe_month_start_utc, lookback_month_start_utc) ==
    IF probe_month_start_utc < lookback_month_start_utc
    THEN <<>>
    ELSE <<<<probe_month_start_utc, next_month_start(probe_month_start_utc)>>>>
            \o ProbeWindows(previous_month_start(probe_month_start_utc),
                            lookback_month_start_utc)

(* entry of get_latest_availability: the station check, the answer from the *)
(* newest stored observation, or the start of the probe loop                *)
get_latest_availability ==
    /\ gd.pc = "idle"
    /\ \E station_id \in {req_station, UnknownStation} :
         LET cached_newest == get_latest_measurement_timestamp(measurements, station_id)
             windows == ProbeWindows(start_of_month(now),
                                     start_of_month(now - LookbackMonths * TicksPerMonth))
         IN  gd' = IF ~_assert_station_supported_by_antarctic_endpoint(station_id)
                   THEN RejectedCall("get_latest_availability", station_id, 0, 0, {},
                                     "AppValidationError")
                   ELSE IF ~cached_newest.is_none
                   THEN [IdleCall EXCEPT !.pc = "done", !.kind = "get_latest_availability",
                                         !.station_id = station_id, !.last = "cached"]
                   ELSE [IdleCall EXCEPT
                           !.pc = "loop", !.kind = "get_latest_availability",
                           !.station_id = station_id, !.windows = windows, !.index = 1,
                           !.fetches = [i \in 1..Len(windows) |-> 0],
                           !.was_cached = [i \in 1..Len(windows) |-> "unseen"],
                           !.records_at_start = Cardinality(fetch_windows)]
    /\ UNCHANGED <<fetch_windows, measurements, now, req_station, recovered, nonDataVars>>

(* one iteration of the probe loop: a month with a record is read from the *)
(* store, any other is fetched and upserted; the first month with rows     *)
(* ends the call                                                           *)
get_latest_availability_window ==
    /\ gd.pc = "loop" /\ gd.kind = "get_latest_availability"
    /\ LET w == gd.windows[gd.index]
           has_cached_window == has_cached_fetch_window(fetch_windows, gd.station_id, w[1], w[2])
       IN  IF has_cached_window
           THEN /\ gd' = IF get_measurements(measurements, gd.station_id, w[1], w[2]) # {}
                         THEN [gd EXCEPT !.pc = "done", !.last = "cached",
                                         !.was_cached[gd.index] = "cached"]
                         ELSE NextWindow(gd, "cached", "cached")
                /\ UNCHANGED <<fetch_windows, measurements>>
           ELSE \E outcome \in FetchOutcomes(w[1], w[2]) :
                   IF outcome.kind = "error"
                   THEN /\ gd' = raise_upstream_error(gd, "missing", outcome.detail)
                        /\ UNCHANGED <<fetch_windows, measurements>>
                   ELSE LET stored == upsert_measurements(
                                          [measurements |-> measurements,
                                           fetch_windows |-> fetch_windows],
                                          gd.station_id, outcome.rows, w[1], w[2], now)
                            fetched == [gd EXCEPT !.fetches[gd.index] = @ + 1,
                                                  !.persisted = @ \cup {gd.index}]
                        IN  /\ measurements' = stored.measurements
                            /\ fetch_windows' = stored.fetch_windows
                            /\ gd' = IF outcome.rows # <<>>
                                     THEN [fetched EXCEPT !.pc = "done", !.last = "rows",
                                                          !.was_cached[gd.index] = "missing"]
                                     ELSE NextWindow(fetched, "empty", "missing")
    /\ UNCHANGED <<now, req_station, recovered, nonDataVars>>

(* the operations that read and write the measurement store *)
NextStore ==
    \/ get_data
    \/ CallReturns
    \/ get_data_window
    \/ refresh_data_range
    \/ refresh_data_range_window
    \/ get_latest_availability
    \/ get_latest_availability_window

SpecStore == InitData /\ [][NextStore]_vars

(* ---------------- request validation of the analysis operations ---------------- *)

(* entry of get_playback_frames / get_timeframe_analytics: the station and  *)
(* range checks, then the call of get_data with selected_types = []         *)
BeginAnalysisCall(kind, station_id, start_local, end_local) ==
    /\ gd' = IF ~_assert_station_supported_by_antarctic_endpoint(station_id)
             THEN RejectedCall(kind, station_id, start_local, end_local, {},
                               "AppValidationError")
             ELSE IF ~_assert_station_selectable(station_id)
             THEN RejectedCall(kind, station_id, start_local, end_local, {},
                               "AppValidationError")
             ELSE IF start_local >= end_local
             THEN RejectedCall(kind, station_id, start_local, end_local, {},
                               "AppValidationError")
             ELSE StartedCall(kind, station_id, start_local, end_local, {})
    /\ UNCHANGED <<fetch_windows, measurements, now, req_station, recovered, nonDataVars>>

get_playback_frames ==
    /\ gd.pc = "idle"
    /\ \E station_id \in {req_station, UnknownStation},
          start_local \in DataTimes, end_local \in DataTimes :
        BeginAnalysisCall("get_playback_frames", station_id, start_local, end_local)

(* get_timeframe_analytics without a comparison range and without           *)
(* force_refresh_on_empty                                                   *)
get_timeframe_analytics ==
    /\ gd.pc = "idle"
    /\ \E station_id \in {req_station, UnknownStation},
          start_local \in DataTimes, end_local \in DataTimes :
        BeginAnalysisCall("get_timeframe_analytics", station_id, start_local, end_local)

(* the four operations against an empty store, one request after the other; *)
(* jobs are created without background execution and are not polled         *)
InitValidation ==
    /\ pl_start = MinTime /\ pl_end = MinTime /\ pl_out = PlannerIdle
    /\ ClientIdle
    /\ LockIdle
    /\ FramesIdle
    /\ now = JobMaxTime - 1
    /\ req_station \in KnownAntarcticStations
    /\ gd = IdleCall
    /\ recovered = EmptyTable
    /\ upstream_errors_left = AnyErrors
    /\ jobs = EmptyTable
    /\ background_enabled = FALSE
    /\ _query_job_threads = EmptyTable
    /\ ex = [e \in Executors |-> IdleExecutor]
    /\ resp = NoResponse
    /\ measurements = EmptyTable
    /\ fetch_windows = {}

(* create_query_job, called once the previous request has been answered *)
create_query_job_request ==
    /\ gd.pc = "idle"
    /\ create_query_job

NextValidation ==
    \/ get_data
    \/ get_playback_frames
    \/ get_timeframe_analytics
    \/ get_data_window
    \/ CallReturns
    \/ create_query_job_request

SpecValidation == InitValidation /\ [][NextValidation]_vars

(* ---------------- Playback Frame Builder: step and frame grid ---------------- *)

(* datetimes of the frame builder count 10-minute slots; a day has 144 *)
PlaybackSteps == {"10m", "1h", "3h", "1d"}

_step_delta(step) ==
    IF step = "10m" THEN 1
    ELSE IF step = "1h" THEN 6
    ELSE IF step = "3h" THEN 18
    ELSE 144

_frame_count_for_range(start_local, end_local, step) ==
    IF end_local <= start_local THEN 0
    ELSE ((end_local - start_local) \div _step_delta(step)) + 1

RECURSIVE _coerce_playback_step(_, _, _)

_coerce_playback_step_once(start_local, end_local, step) ==
    IF _frame_count_for_range(start_local, end_local, step) > 1500
    THEN (IF step = "10m" THEN "1h" ELSE IF step = "1h" THEN "3h" ELSE "1d")
    ELSE step

_coerce_playback_step(start_local, end_local, step) ==
    IF _frame_count_for_range(start_local, end_local, step) > 1500
    THEN IF step = "10m" THEN _coerce_playback_step(start_local, end_local, "1h")
         ELSE IF step = "1h" THEN _coerce_playback_step(start_local, end_local, "3h")
         ELSE IF step = "3h" THEN _coerce_playback_step(start_local, end_local, "1d")
         ELSE step
    ELSE step

_floor_to_step(value, step) == value - (value % _step_delta(step))

(* the frames of _rows_to_frames: one per pass of `while cursor <=          *)
(* aligned_end`, the cursor going from aligned_start in steps of step_delta; *)
(* what a frame carries does not matter to their number, which is the       *)
(* number of passes                                                         *)
frames_from(aligned_start, aligned_end, step_delta) ==
    IF aligned_start <= aligned_end
    THEN ((aligned_end - aligned_start) \div step_delta) + 1
    ELSE 0

_rows_to_frames(start_local, end_local, step) ==
    frames_from(_floor_to_step(start_local, step), end_local, _step_delta(step))

(* requests: a start some slots into a day, and a range about as long as    *)
(* 1,500 steps of one of the step sizes, or MaxFrameDays days               *)
FrameStarts == {0, 1, 7, 143}

FrameRanges ==
    {1500 * _step_delta(step) + d : step \in PlaybackSteps, d \in {0 - 1, 0, 1}}
        \cup {1, 144 * MaxFrameDays}

InitFrames ==
    /\ pl_start = MinTime /\ pl_end = MinTime /\ pl_out = PlannerIdle
    /\ fetch_windows = {}
    /\ measurements = EmptyTable
    /\ now = MaxTime
    /\ req_station = "89064"
    /\ gd = IdleCall
    /\ recovered = EmptyTable
    /\ JobsIdle
    /\ ClientIdle
    /\ LockIdle
    /\ \E start_local \in FrameStarts, range \in FrameRanges, step \in PlaybackSteps :
          pf = [NoFrames EXCEPT !.start_local = start_local,
                                !.end_local = start_local + range, !.step = step]
    /\ an = NoAnalysis

(* get_playback_frames for a valid request: the step is coerced and the     *)
(* frames are laid out on the grid of the effective step                    *)
playback_frames ==
    /\ pf.pc = "idle"
    /\ LET effective_step == _coerce_playback_step(pf.start_local, pf.end_local, pf.step)
       IN  pf' = [pf EXCEPT !.pc = "return",
                            !.effective_step = effective_step,
                            !.frames = _rows_to_frames(pf.start_local, pf.end_local,
                                                       effective_step)]
    /\ UNCHANGED <<pl_start, pl_end, pl_out, fetch_windows, measurements, now, req_station, gd,
                   recovered, jobVars, clientVars, lockVars, an>>

NextFrames == playback_frames

SpecFrames == InitFrames /\ [][NextFrames]_vars

(* ---------------- _start_query_job_thread, thread by thread ---------------- *)

InitLock ==
    /\ pl_start = MinTime /\ pl_end = MinTime /\ pl_out = PlannerIdle
    /\ fetch_windows = {}
    /\ measurements = EmptyTable
    /\ now = MaxTime
    /\ req_station = "89064"
    /\ gd = IdleCall
    /\ recovered = EmptyTable
    /\ JobsIdle
    /\ ClientIdle
    /\ FramesIdle
    /\ _query_job_lock = "free"
    /\ th = [t \in RequestThreads \cup WorkerThreads |-> NotStarted]

lockFrame == <<pl_start, pl_end, pl_out, fetch_windows, measurements, now, req_station, gd,
               recovered, jobs, background_enabled, ex, resp, upstream_errors_left, clientVars,
               framesVars>>

(* Thread.is_alive() of the thread registered for the job *)
thread_is_alive(threads, registry, job_id) ==
    /\ job_id \in DOMAIN registry
    /\ threads[registry[job_id]].pc \notin {"idle", "dead"}

lock_exit_keeps(holder) == holder

(* leaving the with block releases the lock *)
lock_exit(holder) == "free"

(* a request (create_query_job, get_query_job_status) calls                 *)
(* _start_query_job_thread and waits for the lock                           *)
start_thread_call(t) ==
    /\ t \in RequestThreads
    /\ th[t].pc = "idle"
    /\ \E job_id \in JobIds : th' = [th EXCEPT ![t] = [pc |-> "acquire", job_id |-> job_id]]
    /\ UNCHANGED <<_query_job_lock, _query_job_threads>>
    /\ UNCHANGED lockFrame

start_thread_acquire(t) ==
    /\ th[t].pc = "acquire"
    /\ _query_job_lock = "free"
    /\ _query_job_lock' = t
    /\ th' = [th EXCEPT ![t].pc = "check"]
    /\ UNCHANGED _query_job_threads
    /\ UNCHANGED lockFrame

(* existing.is_alive(): return, else register a new thread and start it *)
start_thread_check(t) ==
    /\ th[t].pc = "check"
    /\ IF thread_is_alive(th, _query_job_threads, th[t].job_id)
       THEN /\ th' = [th EXCEPT ![t] = NotStarted]
            /\ _query_job_lock' = lock_exit(t)
            /\ UNCHANGED _query_job_threads
       ELSE \E w \in WorkerThreads :
               /\ th[w].pc \in {"idle", "dead"}
               /\ w \notin {_query_job_threads[j] : j \in DOMAIN _query_job_threads \ {th[t].job_id}}
               /\ _query_job_threads' =
                     [j \in DOMAIN _query_job_threads \cup {th[t].job_id} |->
                         IF j = th[t].job_id THEN w ELSE _query_job_threads[j]]
               /\ th' = [th EXCEPT ![t].pc = "started",
                                   ![w] = [pc |-> "read", job_id |-> th[t].job_id]]
               /\ UNCHANGED _query_job_lock
    /\ UNCHANGED lockFrame

(* worker.start() has returned; the with block is left *)
start_thread_exit(t) ==
    /\ th[t].pc = "started"
    /\ th' = [th EXCEPT ![t] = NotStarted]
    /\ _query_job_lock' = lock_exit(t)
    /\ UNCHANGED _query_job_threads
    /\ UNCHANGED lockFrame

(* a request that runs _run_query_job_worker itself (status poll without    *)
(* background execution)                                                    *)
poll_runs_worker(t) ==
    /\ t \in RequestThreads
    /\ th[t].pc = "idle"
    /\ \E job_id \in JobIds : th' = [th EXCEPT ![t] = [pc |-> "read", job_id |-> job_id]]
    /\ UNCHANGED <<_query_job_lock, _query_job_threads>>
    /\ UNCHANGED lockFrame

(* _run_query_job_worker: read the job, call upstream, sleep before a retry, *)
(* return                                                                    *)
run_worker_step(t) ==
    /\ \/ th[t].pc = "read" /\ th' = [th EXCEPT ![t].pc = "upstream_call"]
       \/ th[t].pc = "upstream_call" /\ th' = [th EXCEPT ![t].pc = "backoff_sleep"]
       \/ th[t].pc = "backoff_sleep" /\ th' = [th EXCEPT ![t].pc = "upstream_call"]
       \/ /\ th[t].pc \in {"read", "upstream_call"}
          /\ th' = [th EXCEPT ![t] = IF t \in WorkerThreads
                                      THEN [pc |-> "dead", job_id |-> th[t].job_id]
                                      ELSE NotStarted]
    /\ UNCHANGED <<_query_job_lock, _query_job_threads>>
    /\ UNCHANGED lockFrame

NextLock ==
    \E t \in RequestThreads \cup WorkerThreads :
        \/ start_thread_call(t)
        \/ start_thread_acquire(t)
        \/ start_thread_check(t)
        \/ start_thread_exit(t)
        \/ poll_runs_worker(t)
        \/ run_worker_step(t)

SpecLock == InitLock /\ [][NextLock]_vars

(* ---------------- AEMET client: _throttled_get ---------------- *)

(* Settings.aemet_min_request_interval_seconds and                          *)
(* Settings.aemet_retry_after_cap_seconds, in seconds; the monotonic clock  *)
(* counts seconds                                                           *)
min_request_interval_seconds == 2

aemet_retry_after_cap_seconds == 2

Max(a, b) == IF a >= b THEN a ELSE b

Min(a, b) == IF a <= b THEN a ELSE b

(* the Retry-After header of a response: absent, not a number, or a number *)
NoRetryAfter == [kind |-> "absent", value |-> 0]

RetryAfterHeaders ==
    {NoRetryAfter, [kind |-> "invalid", value |-> 0]}
        \cup {[kind |-> "number", value |-> v] : v \in {0, 1, 60, 700}}

Responses ==
    {[status_code |-> c, retry_after |-> NoRetryAfter] : c \in {200, 500}}
        \cup {[status_code |-> 429, retry_after |-> h] : h \in RetryAfterHeaders}

_retry_after_seconds(response) ==
    LET raw == response.retry_after
    IN  IF raw.kind = "absent" THEN Max(min_request_interval_seconds, 1)
        ELSE IF raw.kind = "invalid" THEN Max(min_request_interval_seconds, 1)
        ELSE IF raw.value < 1 THEN 1
        ELSE Min(raw.value, 600)

wait_for_min_interval_only(at, last_request, rate_limited_until) ==
    min_request_interval_seconds - (at - last_request)

wait_for(at, last_request, rate_limited_until) ==
    Max(min_request_interval_seconds - (at - last_request), rate_limited_until - at)

(* the process has been up for a while when the first request is made *)
InitLimiter ==
    /\ pl_start = MinTime /\ pl_end = MinTime /\ pl_out = PlannerIdle
    /\ fetch_windows = {}
    /\ measurements = EmptyTable
    /\ now = MaxTime
    /\ req_station = "89064"
    /\ gd = IdleCall
    /\ recovered = EmptyTable
    /\ JobsIdle
    /\ LockIdle
    /\ FramesIdle
    /\ monotonic \in 0..MaxMonotonic
    /\ _request_lock = "free"
    /\ _last_request_monotonic = 0
    /\ _rate_limited_until_monotonic = 0
    /\ tg = [c \in Callers |-> NotCalling]
    /\ http = NoHttp

limiterFrame == <<pl_start, pl_end, pl_out, fetch_windows, measurements, now, req_station, gd,
                  recovered, jobVars, lockVars, framesVars>>

(* time passes between two requests *)
monotonic_advances ==
    /\ _request_lock = "free"
    /\ monotonic < MaxMonotonic
    /\ monotonic' = monotonic + 1
    /\ UNCHANGED <<_request_lock, _last_request_monotonic, _rate_limited_until_monotonic, tg, http>>
    /\ UNCHANGED limiterFrame

_request_lock_acquired_at_once(lock) == TRUE

(* `with self.__class__._request_lock`: the thread goes on once the lock is *)
(* free                                                                     *)
_request_lock_acquired(lock) == lock = "free"

(* _throttled_get from `with _request_lock` to the decision to sleep *)
throttled_get_enter(c) ==
    /\ tg[c].pc = "idle"
    /\ _request_lock_acquired(_request_lock)
    /\ monotonic <= MaxMonotonic
    /\ _request_lock' = c
    /\ LET wait == wait_for(monotonic, _last_request_monotonic, _rate_limited_until_monotonic)
       IN  tg' = [tg EXCEPT ![c] =
                     IF wait > 0
                     THEN [pc |-> "sleep", wake_at |-> monotonic + wait, issued_at |-> 0,
                           slept |-> TRUE]
                     ELSE [pc |-> "get", wake_at |-> 0, issued_at |-> 0, slept |-> FALSE]]
    /\ UNCHANGED <<monotonic, _last_request_monotonic, _rate_limited_until_monotonic, http>>
    /\ UNCHANGED limiterFrame

(* time.sleep(wait_for) returns, no earlier than asked *)
throttled_get_sleep(c) ==
    /\ tg[c].pc = "sleep"
    /\ \E late \in {0, 1} : monotonic' = Max(monotonic, tg[c].wake_at + late)
    /\ tg' = [tg EXCEPT ![c].pc = "get"]
    /\ UNCHANGED <<_request_lock, _last_request_monotonic, _rate_limited_until_monotonic, http>>
    /\ UNCHANGED limiterFrame

(* client.get(url) sends the request *)
throttled_get_issue(c) ==
    /\ tg[c].pc = "get"
    /\ tg' = [tg EXCEPT ![c].pc = "inflight", ![c].issued_at = monotonic]
    /\ UNCHANGED <<monotonic, _request_lock, _last_request_monotonic,
                   _rate_limited_until_monotonic, http>>
    /\ UNCHANGED limiterFrame

(* client.get(url) returns a response; the attributes are updated and the   *)
(* lock is released                                                         *)
throttled_get_response(c) ==
    /\ tg[c].pc = "inflight"
    /\ \E took \in {0, 1}, response \in Responses :
          LET completed_at == monotonic + took
              cooldown_until == completed_at + _retry_after_seconds(response)
              rate_limited_until ==
                  IF response.status_code = 429
                     /\ cooldown_until > _rate_limited_until_monotonic
                  THEN cooldown_until
                  ELSE _rate_limited_until_monotonic
          IN  /\ monotonic' = completed_at
              /\ _last_request_monotonic' = completed_at
              /\ _rate_limited_until_monotonic' = rate_limited_until
              /\ http' = [completed |-> <<completed_at>>,
                          cooldown_until |->
                              IF response.status_code = 429
                              THEN Max(http.cooldown_until, cooldown_until)
                              ELSE http.cooldown_until,
                          status |-> response.status_code,
                          by |-> c,
                          retry_after |-> response.retry_after]
    /\ _request_lock' = "free"
    /\ tg' = [tg EXCEPT ![c] = NotCalling]
    /\ UNCHANGED limiterFrame

(* client.get(url) raises (timeout, connection error): no response, the     *)
(* attributes keep their values and the lock is released                    *)
throttled_get_raises(c) ==
    /\ tg[c].pc = "inflight"
    /\ \E took \in {0, 1} : monotonic' = monotonic + took
    /\ _request_lock' = "free"
    /\ tg' = [tg EXCEPT ![c] = NotCalling]
    /\ UNCHANGED <<_last_request_monotonic, _rate_limited_until_monotonic, http>>
    /\ UNCHANGED limiterFrame

NextLimiter ==
    \/ monotonic_advances
    \/ \E c \in Callers :
          \/ throttled_get_enter(c)
          \/ throttled_get_sleep(c)
          \/ throttled_get_issue(c)
          \/ throttled_get_response(c)
          \/ throttled_get_raises(c)

SpecLimiter == InitLimiter /\ [][NextLimiter]_vars

(* ======================= properties ======================= *)

RECURSIVE SumSeq(_)
SumSeq(q) == IF q = <<>> THEN 0 ELSE Head(q) + SumSeq(Tail(q))

PlannedRecord(call, i) ==
    HasRecord(fetch_windows, call.station_id, call.windows[i][1], call.windows[i][2])

(* a loop iteration of the call in flight has just been taken on window gd.index *)
WindowStep == gd.pc = "loop" /\ gd' # gd

(* C1 as stated: a get_data call all of whose planned windows had a fetch-window *)
(* record when it started issues no upstream fetch and no upsert_measurements    *)
C1_AllCachedNoFetch ==
    (gd.kind = "get_data" /\ gd.all_cached_at_start)
        => (SumSeq(gd.fetches) = 0 /\ gd.persisted = {})

(* C1 amended: a get_data call all of whose planned windows had a fetch-window  *)
(* record when it started, none of them meeting the direction-recovery          *)
(* condition, issues no upstream fetch and no upsert_measurements, however      *)
(* often it is repeated                                                         *)
C1_CachedCheckedNoFetch ==
    (gd.kind = "get_data" /\ gd.all_cached_at_start /\ ~gd.recovery_at_start)
        => (SumSeq(gd.fetches) = 0 /\ gd.persisted = {})

C1_Witness ==
    /\ gd.kind = "get_data" /\ gd.pc = "done" /\ gd.repeat
    /\ gd.all_cached_at_start /\ ~gd.recovery_at_start
    /\ Len(gd.windows) >= 2

(* C2: a get_data call fetches each planned window at most once; a call that    *)
(* found none of its N planned windows cached and returned has made exactly N   *)
(* upstream fetches and persisted exactly N fetch-window records; the identical *)
(* call issued next makes no upstream fetch                                     *)
C2_OneFetchPerWindow ==
    gd.kind = "get_data" =>
        /\ \A i \in 1..Len(gd.fetches) : gd.fetches[i] <= 1
        /\ (gd.pc = "done" /\ gd.none_cached_at_start) =>
              /\ SumSeq(gd.fetches) = Len(gd.windows)
              /\ Cardinality(gd.persisted) = Len(gd.windows)
              /\ Cardinality(fetch_windows) = gd.records_at_start + Len(gd.windows)
              /\ \A i \in 1..Len(gd.windows) : PlannedRecord(gd, i)
        /\ (gd.pc = "done" /\ gd.repeat) => SumSeq(gd.fetches) = 0

C2_Witness ==
    /\ gd.kind = "get_data" /\ gd.pc = "done" /\ gd.none_cached_at_start
    /\ Len(gd.windows) >= 2 /\ SumSeq(gd.fetches) = Len(gd.windows)

(* C3: when upstream answers a window with no rows, the window gets its         *)
(* fetch-window record, so that has_cached_fetch_window holds of it afterwards, *)
(* and every stored measurement is still stored with the same values            *)
C3_EmptyResultIsCached ==
    [][(WindowStep /\ gd'.last = "empty") =>
          LET w == gd.windows[gd.index]
          IN  /\ HasRecord(fetch_windows', gd.station_id, w[1], w[2])
              /\ has_cached_fetch_window(fetch_windows', gd.station_id, w[1], w[2])
              /\ \A k \in DOMAIN measurements :
                    k \in DOMAIN measurements' /\ measurements'[k] = measurements[k]]_vars

C3_Witness ==
    /\ gd.last = "empty" /\ gd.index >= 2
    /\ LET w == gd.windows[gd.index - 1]
       IN  /\ HasRecord(fetch_windows, gd.station_id, w[1], w[2])
           /\ \E k \in DOMAIN measurements :
                 k[1] = gd.station_id /\ w[1] <= k[2] /\ k[2] < w[2]

(* what a get_data loop iteration on window gd.index did *)
StepCached == gd'.was_cached[gd.index] = "cached"
StepFetched == gd'.fetches[gd.index] = 1
StepWindowChecked(table) ==
    RecordChecked(table, gd.station_id, gd.windows[gd.index][1], gd.windows[gd.index][2])
StepRecoveryCondition ==
    RecoveryCondition(fetch_windows, measurements, gd.station_id,
                      gd.windows[gd.index][1], gd.windows[gd.index][2], gd.selected_types)

(* C4 as stated: a cached window is re-fetched only under the recovery          *)
(* condition, and after the re-fetch and in every other cached case the         *)
(* window's direction_checked flag is set and no later call re-fetches it       *)
C4_RecoveryOnceFlagAlwaysSet ==
    [][(WindowStep /\ gd.kind = "get_data" /\ StepCached) =>
          /\ StepFetched => StepRecoveryCondition
          /\ StepWindowChecked(fetch_windows')
          /\ StepWindowChecked(fetch_windows) => ~StepFetched]_vars

(* C4 amended: a cached window is re-fetched only under the recovery condition; *)
(* after a re-fetch that upstream answered, and in every other cached case in   *)
(* which direction (or all fields) is requested for a selectable station, the   *)
(* window's direction_checked flag is set; when direction is not requested or   *)
(* the station is not selectable the fetch-window records are left as they are; *)
(* a window whose flag is set is never re-fetched by get_data, so that each     *)
(* window is recovered at most once                                             *)
C4_RecoveryAtMostOnce ==
    /\ [](\A k \in DOMAIN recovered : recovered[k] <= 1)
    /\ [][(WindowStep /\ gd.kind = "get_data" /\ StepCached) =>
             /\ StepFetched <=> StepRecoveryCondition
             /\ (StepFetched /\ gd'.pc # "raised") => StepWindowChecked(fetch_windows')
             /\ (~StepFetched /\ DirectionWanted(gd.station_id, gd.selected_types))
                   => StepWindowChecked(fetch_windows')
             /\ ~DirectionWanted(gd.station_id, gd.selected_types)
                   => (~StepFetched /\ fetch_windows' = fetch_windows)
             /\ StepWindowChecked(fetch_windows)
                   => (~StepFetched /\ StepWindowChecked(fetch_windows'))]_vars

C4_Witness ==
    /\ gd.kind = "get_data" /\ gd.pc = "done" /\ gd.repeat
    /\ \E k \in DOMAIN recovered : recovered[k] = 1 /\ k[1] = gd.station_id
          /\ \E i \in 1..Len(gd.windows) :
                gd.windows[i][1] = k[2] /\ gd.was_cached[i] = "cached" /\ gd.fetches[i] = 0

(* C5: a fetch-window record whose direction_checked flag is set keeps it set  *)
(* across every step                                                           *)
C5_DirectionCheckedNeverCleared ==
    [][\A r \in fetch_windows :
          r.direction_checked =>
              \E q \in fetch_windows' :
                  /\ SameWindowKey(q, r.station_id, r.start_utc, r.end_utc)
                  /\ q.direction_checked]_vars

C5_Witness ==
    /\ gd.kind = "refresh_data_range"
    /\ \E i \in gd.persisted :
          /\ gd.was_cached[i] = "cached"
          /\ RecordChecked(fetch_windows, gd.station_id, gd.windows[i][1], gd.windows[i][2])

(* C6: in get_data an upstream error leaves the call at once: the failing       *)
(* window was fetched once and got no record from the call, the failing step    *)
(* wrote nothing, no later window was looked at or fetched, the windows the     *)
(* call had persisted still have their records, and the call does nothing more  *)
C6_UpstreamErrorPropagates ==
    /\ []((gd.kind = "get_data" /\ gd.pc = "raised" /\ gd.error = "UpstreamServiceError") =>
            /\ gd.fetches[gd.index] = 1
            /\ gd.index \notin gd.persisted
            /\ \A j \in 1..Len(gd.windows) :
                  j > gd.index => (gd.fetches[j] = 0 /\ gd.was_cached[j] = "unseen")
            /\ \A j \in gd.persisted : PlannedRecord(gd, j))
    /\ [][(WindowStep /\ gd.kind = "get_data" /\ gd'.last = "error" /\ gd'.index = gd.index) =>
            /\ gd'.pc = "raised" /\ gd'.error = "UpstreamServiceError"
            /\ fetch_windows' = fetch_windows /\ measurements' = measurements]_vars
    /\ [][(WindowStep /\ gd.kind = "get_data" /\ gd'.index # gd.index) =>
            gd'.last # "error"]_vars
    /\ [][gd.pc = "raised" =>
            (fetch_windows' = fetch_windows /\ measurements' = measurements
             /\ gd' \in {gd, IdleCall})]_vars

C6_Witness ==
    /\ gd.kind = "get_data" /\ gd.pc = "raised" /\ gd.error = "UpstreamServiceError"
    /\ gd.index >= 2 /\ gd.persisted # {}
    /\ \A j \in gd.persisted : PlannedRecord(gd, j)

(* ---- Window Planner ---- *)

Planned == pl_out.kind = "return"
PlannedWindows == pl_out.value

Contiguous(ws) ==
    /\ \A i \in 1..Len(ws) : ws[i][1] < ws[i][2]
    /\ \A i \in 1..(Len(ws) - 1) : ws[i][2] = ws[i + 1][1]

(* C7 as stated: the windows of a valid range are contiguous and cover exactly *)
(* [start, end), the first clipped to start and the last clipped to end        *)
C7_TilesRangeExactly ==
    (Planned /\ pl_start < pl_end) =>
        /\ Len(PlannedWindows) >= 1
        /\ Contiguous(PlannedWindows)
        /\ PlannedWindows[1][1] = pl_start
        /\ PlannedWindows[Len(PlannedWindows)][2] = pl_end

(* C7 amended: the windows of a valid range are contiguous and non-overlapping, *)
(* every one of them is a whole calendar month (none is clipped), the first is  *)
(* the month containing start and the last is the month containing end, so the  *)
(* concatenation covers [start, end) and reaches past end                       *)
C7_TilesWholeMonths ==
    (Planned /\ pl_start < pl_end) =>
        LET ws == PlannedWindows
        IN  /\ Len(ws) >= 1
            /\ Contiguous(ws)
            /\ \A i \in 1..Len(ws) :
                  ws[i][1] % TicksPerMonth = 0 /\ ws[i][2] = ws[i][1] + TicksPerMonth
            /\ ws[1][1] <= pl_start /\ pl_start < ws[1][2]
            /\ ws[Len(ws)][1] <= pl_end /\ pl_end < ws[Len(ws)][2]

C7_Witness ==
    /\ Planned /\ pl_start < pl_end /\ Len(PlannedWindows) >= 3
    /\ pl_start # PlannedWindows[1][1]
    /\ \E i \in 1..Len(PlannedWindows) : Month(PlannedWindows[i][1]) = 12

(* C8 as stated: for start >= end the planner fails instead of returning *)
C8_InvalidRangeFails ==
    (pl_out.kind # "idle" /\ pl_start >= pl_end) => pl_out.kind = "raise"

(* C8 amended: for start >= end the planner returns the empty window list; it *)
(* raises nothing                                                              *)
C8_InvalidRangeReturnsEmpty ==
    (pl_out.kind # "idle" /\ pl_start >= pl_end) =>
        (pl_out.kind = "return" /\ pl_out.value = <<>>)

C8_Witness ==
    Planned /\ pl_start > pl_end /\ pl_out.value = <<>>

(* ---- Backfill Job Orchestrator ---- *)

(* stated on the fetch_windows table itself: some record of the station covers *)
(* the window; some covering record was fetched within the freshness interval  *)
AlreadyCached(station_id, start_utc, end_utc) ==
    \E r \in fetch_windows :
        r.station_id = station_id /\ r.start_utc <= start_utc /\ r.end_utc >= end_utc

FreshlyCached(station_id, start_utc, end_utc) ==
    \E r \in fetch_windows :
        /\ r.station_id = station_id /\ r.start_utc <= start_utc /\ r.end_utc >= end_utc
        /\ r.fetched_at_utc >= now - current_month_freshness_hours

JobCreated(j) == j \notin DOMAIN jobs /\ j \in DOMAIN jobs'

(* the windows of the job are the calendar months from the month of *)
(* history_start to the month of effective_end                      *)
PlansMonths(p) ==
    LET ws == p.windows_json
    IN  /\ Len(ws) >= 1
        /\ \A i \in 1..Len(ws) :
              ws[i].startUtc % TicksPerMonth = 0 /\ ws[i].endUtc = ws[i].startUtc + TicksPerMonth
        /\ \A i \in 1..(Len(ws) - 1) : ws[i].endUtc = ws[i + 1].startUtc
        /\ ws[1].startUtc <= p.history_start_utc /\ p.history_start_utc < ws[1].endUtc
        /\ ws[Len(ws)].startUtc <= p.effective_end_utc
        /\ p.effective_end_utc < ws[Len(ws)].endUtc

CountsAndStatus(p) ==
    LET ws == p.windows_json
        cached == Cardinality({i \in 1..Len(ws) : ws[i].status = "cached"})
    IN  /\ \A i \in 1..Len(ws) : ws[i].status \in {"cached", "pending"}
        /\ p.total_windows = Len(ws)
        /\ p.cached_windows = cached
        /\ p.missing_windows = p.total_windows - cached
        /\ p.total_api_calls_planned = 2 * p.missing_windows
        /\ p.status = IF p.missing_windows = 0 THEN "complete" ELSE "pending"
        /\ p.status = "complete" => (p.playback_ready /\ p.total_api_calls_planned = 0)

(* C9 as stated: the created job plans the months from history_start to        *)
(* effective_end, a window is cached exactly if a fetch-window record covers   *)
(* it, missing = total - cached, totalApiCallsPlanned = 2 * missing, status    *)
(* complete (playbackReady, no planned calls) iff missing = 0, else pending    *)
C9_EveryCachedWindowCounts ==
    [][\A j \in JobIds : JobCreated(j) =>
          LET p == jobs'[j]
              ws == p.windows_json
          IN  /\ PlansMonths(p) /\ CountsAndStatus(p)
              /\ \A i \in 1..Len(ws) :
                    ws[i].status = "cached"
                       <=> AlreadyCached(p.station_id, ws[i].startUtc, ws[i].endUtc)]_vars

(* C9 amended: as stated, except that a window ending after the moment of     *)
(* creation (the current month) is marked cached only if a covering record    *)
(* was fetched within the freshness interval (24 h by default); with an older *)
(* record it is pending and counts as missing                                 *)
C9_FreshOrPastWindowCounts ==
    [][\A j \in JobIds : JobCreated(j) =>
          LET p == jobs'[j]
              ws == p.windows_json
          IN  /\ PlansMonths(p) /\ CountsAndStatus(p)
              /\ \A i \in 1..Len(ws) :
                    ws[i].status = "cached"
                       <=> IF ws[i].endUtc > now
                           THEN FreshlyCached(p.station_id, ws[i].startUtc, ws[i].endUtc)
                           ELSE AlreadyCached(p.station_id, ws[i].startUtc, ws[i].endUtc)]_vars

C9_Witness ==
    /\ resp = [op |-> "create_query_job", error |-> "none"]
    /\ \E j \in DOMAIN jobs :
          LET p == jobs[j]
              ws == p.windows_json
          IN  /\ p.status = "pending" /\ p.cached_windows >= 1 /\ p.missing_windows = 1
              /\ p.total_api_calls_planned = 2
              /\ \E i \in 1..Len(ws) :
                    /\ ws[i].status = "pending" /\ ws[i].endUtc > now
                    /\ AlreadyCached(p.station_id, ws[i].startUtc, ws[i].endUtc)

(* C10: the persisted status of a job changes only from pending to running, *)
(* from running to complete and from running to failed                      *)
C10_StatusStateMachine ==
    [][\A j \in DOMAIN jobs :
          /\ j \in DOMAIN jobs'
          /\ jobs'[j].status # jobs[j].status =>
                <<jobs[j].status, jobs'[j].status>> \in
                    {<<"pending", "running">>, <<"running", "complete">>,
                     <<"running", "failed">>}]_vars

(* ---------------- properties of the worker ---------------- *)

Terminal(j) == j \in DOMAIN jobs /\ jobs[j].status \in {"complete", "failed"}

(* the step is an upstream call of executor e: the bulk pre-fetch, or the *)
(* fetch of one window when there is no bulk answer to take the rows from *)
BulkCallStep(e) ==
    ex[e].pc = "start" /\ ex'[e] # ex[e] /\ ex[e].payload.windows_json # <<>>

WindowCallStep(e) ==
    ex[e].pc = "attempt" /\ ex'[e] # ex[e] /\ ex[e].bulk_rows_by_month.is_none

UpstreamCallStep(e) == BulkCallStep(e) \/ WindowCallStep(e)

Counters(p) ==
    <<p.total_windows, p.cached_windows, p.missing_windows, p.completed_windows,
      p.total_api_calls_planned, p.completed_api_calls>>

(* C11: once the persisted status of a job is complete or failed, no step of *)
(* a worker started or a status poll made afterwards changes its persisted   *)
(* status, windows or counters, and none is an upstream call for that job    *)
C11_TerminalStaysTerminal ==
    [][\A j \in JobIds : Terminal(j) =>
          /\ j \in DOMAIN jobs'
          /\ jobs'[j].status = jobs[j].status
          /\ jobs'[j].windows_json = jobs[j].windows_json
          /\ Counters(jobs'[j]) = Counters(jobs[j])
          /\ \A e \in Executors : ex[e].job_id = j => ~UpstreamCallStep(e)]_vars

(* a worker has been started on a job that is already complete or failed *)
C11_Witness ==
    \E j \in JobIds, e \in Executors :
        /\ Terminal(j)
        /\ ex[e].pc = "read" /\ ex[e].job_id = j

(* the worker threads of job j that have been started and have not returned *)
LiveWorkers(executors, j) ==
    {e \in Executors : executors[e].job_id = j /\ executors[e].pc \notin {"idle", "poll"}}

(* C12: with background execution a job never has two live worker threads, *)
(* the live one is the registered one, and a status poll that calls        *)
(* _start_query_job_thread while the job has a live worker changes neither *)
(* the registry nor any worker                                             *)
C12_OneLiveWorker ==
    /\ [](background_enabled =>
             \A j \in JobIds :
                /\ Cardinality(LiveWorkers(ex, j)) <= 1
                /\ \A e \in LiveWorkers(ex, j) :
                      j \in DOMAIN _query_job_threads /\ _query_job_threads[j] = e)
    /\ [][background_enabled =>
             \A j \in JobIds, e \in Executors :
                (/\ ex[e].pc = "poll" /\ ex[e].job_id = j /\ ex'[e] # ex[e]
                 /\ LiveWorkers(ex, j) # {})
                => /\ _query_job_threads' = _query_job_threads
                   /\ ex'[e] = IdleExecutor
                   /\ \A w \in Executors \ {e} : ex'[w] = ex[w]]_vars

(* a poll is about to call _start_query_job_thread for a job whose worker is live *)
C12_Witness ==
    /\ background_enabled
    /\ \E j \in JobIds, e \in Executors :
          /\ ex[e].pc = "poll" /\ ex[e].job_id = j
          /\ LiveWorkers(ex, j) # {}

(* the executors that are past the read of job j and run its worker logic *)
Mutators(executors, j) ==
    {e \in Executors : executors[e].job_id = j
                         /\ executors[e].pc \notin {"idle", "poll", "read"}}

(* C13: also without background execution the worker logic of a job is never *)
(* executed by two executors at once, and no persisted window that is        *)
(* complete is set back by the upsert of another executor's older snapshot   *)
C13_SingleMutator ==
    /\ [](\A j \in JobIds : Cardinality(Mutators(ex, j)) <= 1)
    /\ [][\A j \in DOMAIN jobs :
             /\ j \in DOMAIN jobs'
             /\ Len(jobs'[j].windows_json) = Len(jobs[j].windows_json)
             /\ \A i \in 1..Len(jobs[j].windows_json) :
                   jobs[j].windows_json[i].status \in {"cached", "complete"}
                      => jobs'[j].windows_json[i] = jobs[j].windows_json[i]]_vars

(* the error texts the worker retries, as the claims list them *)
RetryableDetails == {"HTTP 429", "HTTP 500", "HTTP 502", "HTTP 503", "HTTP 504"}

PermanentDetail(detail) == detail # NoneV /\ detail \notin RetryableDetails

(* C14: a window whose attempt ended in a non-retryable upstream error is     *)
(* persisted as failed together with the job, whose error_detail is the      *)
(* error; the step that records the error is one attempt (the counter grows  *)
(* by one) and ends the worker, and the window is never changed again        *)
C14_PermanentErrorFailsAtOnce ==
    /\ [](\A j \in DOMAIN jobs : \A i \in 1..Len(jobs[j].windows_json) :
             LET w == jobs[j].windows_json[i]
             IN  PermanentDetail(w.errorDetail) =>
                    /\ w.status = "failed"
                    /\ jobs[j].status = "failed"
                    /\ jobs[j].error_detail = w.errorDetail)
    /\ [][\A j \in DOMAIN jobs : \A i \in 1..Len(jobs[j].windows_json) :
             LET w == jobs[j].windows_json[i]
                 w2 == jobs'[j].windows_json[i]
             IN  /\ PermanentDetail(w.errorDetail) => w2 = w
                 /\ (~PermanentDetail(w.errorDetail) /\ PermanentDetail(w2.errorDetail))
                       => /\ w2.attempts = w.attempts + 1
                          /\ Mutators(ex', j) = {}]_vars

(* a second window failed at its first attempt with HTTP 404 *)
C14_Witness ==
    \E j \in DOMAIN jobs :
        LET ws == jobs[j].windows_json
        IN  /\ jobs[j].status = "failed" /\ jobs[j].error_detail = "HTTP 404"
            /\ Len(ws) >= 2
            /\ ws[1].status = "complete"
            /\ ws[2].status = "failed" /\ ws[2].attempts = 1
            /\ ws[2].errorDetail = "HTTP 404"

(* the jobs planned with exactly one missing window, with that window *)
OneMissing(j) == j \in DOMAIN jobs /\ jobs[j].missing_windows = 1

TheMissingWindow(j) ==
    LET ws == jobs[j].windows_json
    IN  ws[CHOOSE i \in 1..Len(ws) : ws[i].status # "cached"]

(* C15 as stated: a job with one missing window, each fetch of which fails, *)
(* is failed only after 4 attempts on that window                           *)
C15_FailedAfterMaxAttempts ==
    \A j \in JobIds :
        (OneMissing(j) /\ jobs[j].status = "failed") => TheMissingWindow(j).attempts = 4

(* C15 amended: such a job is failed after 4 attempts if the failures are    *)
(* retryable (HTTP 429, 500, 502, 503, 504), and by the first non-retryable *)
(* failure otherwise; while fewer than 4 attempts have failed, all of them   *)
(* retryably, the window is pending and the job running                     *)
C15_FailedAfterMaxRetryableAttempts ==
    \A j \in JobIds : OneMissing(j) =>
        LET w == TheMissingWindow(j)
        IN  /\ jobs[j].status = "failed" =>
                  /\ w.status = "failed"
                  /\ w.errorDetail \in RetryableDetails => w.attempts = 4
                  /\ PermanentDetail(w.errorDetail) => w.attempts \in 1..4
            /\ (w.errorDetail \in RetryableDetails /\ w.attempts < 4) =>
                  w.status = "pending" /\ jobs[j].status = "running"

(* one missing window, failed at the fourth retryable failure *)
C15_Witness ==
    \E j \in JobIds :
        /\ OneMissing(j) /\ jobs[j].status = "failed"
        /\ TheMissingWindow(j).attempts = 4
        /\ TheMissingWindow(j).errorDetail = "HTTP 503"
        /\ jobs[j].error_detail = "HTTP 503"

(* the executor is cut off by the end of the process *)
Killed(e) == ex[e].pc # "idle" /\ ex'[e] = IdleExecutor /\ jobs' = jobs

AttemptStep(e) == ex[e].pc = "attempt" /\ ex'[e] # ex[e] /\ ~Killed(e)

C17_FailFast ==
    [][\A j \in DOMAIN jobs :
          LET ws == jobs[j].windows_json
              ws2 == jobs'[j].windows_json
              failed == {i \in 1..Len(ws) : ws[i].status = "failed"}
              failed2 == {i \in 1..Len(ws2) : ws2[i].status = "failed"}
          IN  /\ failed2 # failed =>
                    /\ failed = {} /\ Cardinality(failed2) = 1
                    /\ \A i \in 1..Len(ws) : i \notin failed2 => ws2[i] = ws[i]
                    /\ Mutators(ex', j) = {}
              /\ failed # {} =>
                    /\ ws2 = ws
                    /\ \A e \in Executors : ex[e].job_id = j =>
                          ~AttemptStep(e) /\ ~UpstreamCallStep(e)]_vars

(* the first of three windows failed; the two after it are untouched *)
C17_Witness ==
    \E j \in DOMAIN jobs :
        LET ws == jobs[j].windows_json
        IN  /\ Len(ws) = 3
            /\ ws[1].status = "failed" /\ ws[1].attempts >= 1
            /\ \A i \in 2..3 : ws[i].status = "pending" /\ ws[i].attempts = 0
                                  /\ ws[i].apiCallsCompleted = 0
            /\ \A e \in Executors : ex[e].pc = "idle"

AllWindowsDone(p) ==
    \A i \in 1..Len(p.windows_json) : p.windows_json[i].status \in {"cached", "complete"}

(* the step with which executor e returns from _run_query_job_worker *)
ReturnStep(e) == ex[e].pc \notin {"idle", "poll"} /\ ex'[e] = IdleExecutor /\ ~Killed(e)

(* C18: a worker run that returns with every window of its job cached or *)
(* complete leaves the job with status complete, with a thread and in a  *)
(* drive-by poll alike                                                   *)
C18_CompletingRunMarksComplete ==
    [][\A e \in Executors : ReturnStep(e) =>
          LET p == jobs'[ex[e].job_id]
          IN  AllWindowsDone(p) => p.status = "complete"]_vars

(* the rows the bulk call answered to executor e *)
BulkRows(e) ==
    LET by_month == ex[e].bulk_rows_by_month.by_month
    IN  UNION {{by_month[m][k] : k \in 1..Len(by_month[m])} : m \in DOMAIN by_month}

(* the keys under which the bulk rows of the calendar month of t are stored *)
BulkKeysOfMonth(e, t) ==
    {<<ex[e].payload.station_id, r.measured_at_utc>> :
        r \in {x \in BulkRows(e) : Year(x.measured_at_utc) = Year(t)
                                      /\ Month(x.measured_at_utc) = Month(t)}}

(* C19: a worker run whose bulk call answered rows issues no other upstream  *)
(* call; each of its attempts stores exactly the bulk rows of the window's   *)
(* calendar month and completes the window; and the run returns only after   *)
(* every window is cached or complete and the job complete, with that one    *)
(* upstream call made                                                        *)
C19_BulkRowsSatisfyEveryWindow ==
    /\ [](\A e \in Executors : ex[e].bulk_answer = "rows" =>
             /\ ex[e].upstream_calls = 1 /\ ex[e].last_fetch = <<>>
             /\ ex[e].pc \in {"attempt", "progress", "finish"})
    /\ [][\A e \in Executors : ex[e].bulk_answer = "rows" =>
             /\ ~UpstreamCallStep(e)
             /\ AttemptStep(e) =>
                   LET w == ex[e].payload.windows_json[ex[e].index]
                   IN  /\ DOMAIN measurements' =
                             DOMAIN measurements \cup BulkKeysOfMonth(e, w.startUtc)
                       /\ has_cached_fetch_window(fetch_windows', ex[e].payload.station_id,
                                                  w.startUtc, w.endUtc)
                       /\ ex'[e].pc = "progress"
                       /\ ex'[e].payload.windows_json[ex[e].index].status = "complete"
             /\ ReturnStep(e) =>
                   /\ AllWindowsDone(jobs'[ex[e].job_id])
                   /\ jobs'[ex[e].job_id].status = "complete"]_vars

(* a drive-by run has completed three windows from the rows of its bulk call *)
C19_Witness ==
    \E e \in Executors :
        /\ ~background_enabled
        /\ ex[e].bulk_answer = "rows" /\ ex[e].pc = "finish"
        /\ ex[e].processed_windows = 3
        /\ ex[e].upstream_calls = 1
        /\ Cardinality(DOMAIN ex[e].bulk_rows_by_month.by_month) >= 2

(* C20: a worker fetches windows from upstream exactly in the runs whose   *)
(* bulk call raised or answered no rows; the bulk call, whatever it        *)
(* answers, leaves the job running without error and the worker goes on    *)
(* to the windows; and in such a run every attempt is one upstream call,   *)
(* for the start and end of the window attempted                           *)
C20_FallbackToWindowCalls ==
    /\ [](\A e \in Executors : ex[e].bulk_answer # "none" =>
             (ex[e].bulk_rows_by_month.is_none <=> ex[e].bulk_answer \in {"raised", "empty"}))
    /\ [][\A e \in Executors :
             LET j == ex[e].job_id
             IN  /\ BulkCallStep(e) =>
                       /\ jobs'[j].status = "running" /\ jobs'[j].error_detail = NoneV
                       /\ jobs'[j].windows_json = jobs[j].windows_json
                       /\ ex'[e].pc \in {"attempt", "progress", "finish"}
                       /\ ex'[e].upstream_calls = 1
                 /\ AttemptStep(e) =>
                       (WindowCallStep(e) <=> ex[e].bulk_answer \in {"raised", "empty"})
                 /\ (AttemptStep(e) /\ ex[e].bulk_answer \in {"raised", "empty"}
                        /\ ~ReturnStep(e)) =>
                       LET w == jobs[j].windows_json[ex[e].index]
                       IN  /\ w.status \notin {"cached", "complete"}
                           /\ ex'[e].upstream_calls = ex[e].upstream_calls + 1
                           /\ ex'[e].last_fetch = <<w.startUtc, w.endUtc>>
                           /\ ex'[e].payload.windows_json[ex[e].index].attempts =
                                 w.attempts + 1]_vars

(* after a bulk call that raised, the run has fetched its first two windows *)
C20_Witness ==
    \E e \in Executors :
        LET ws == ex[e].payload.windows_json
        IN  /\ ex[e].bulk_answer = "raised" /\ ex[e].pc = "progress"
            /\ ex[e].index = 2 /\ ex[e].upstream_calls = 3
            /\ ws[1].status = "complete" /\ ws[2].status = "complete"
            /\ ex[e].last_fetch = <<ws[2].startUtc, ws[2].endUtc>>

(* ---------------- properties of the drive-by mode and of the snapshots ---------------- *)

(* executor e is inside _run_query_job_worker, past its read of the job *)
Running(e) == ex[e].pc \notin {"idle", "poll", "read"}

(* the windows of its job that are cached or complete after the step, less *)
(* those that were when the run of e read the job                          *)
DoneByRunAfterStep(e) ==
    CountWindows(jobs'[ex[e].job_id].windows_json, {"cached", "complete"})
        - ex[e].done_at_start

CreateStep == DOMAIN jobs' # DOMAIN jobs

(* C21 as stated: without background execution create_query_job starts no *)
(* worker, no thread is ever registered, and the run of a status poll     *)
(* completes at most 2 windows                                            *)
C21_AtMostTwoWindowsPerPoll ==
    [][~background_enabled =>
          /\ CreateStep => ex' = ex
          /\ _query_job_threads' = EmptyTable
          /\ \A e \in Executors : Running(e) => DoneByRunAfterStep(e) <= 2]_vars

(* C21 amended: the same, the limit of 2 windows holding for the runs whose *)
(* bulk pre-fetch raised or answered no rows; a run whose bulk pre-fetch    *)
(* answered rows completes every window that was left                       *)
C21_AtMostTwoWindowsPerPollWithoutBulkRows ==
    [][~background_enabled =>
          /\ CreateStep => ex' = ex
          /\ _query_job_threads' = EmptyTable
          /\ \A e \in Executors : Running(e) =>
                /\ ex[e].max_windows = <<2>>
                /\ ex[e].bulk_answer # "rows" => DoneByRunAfterStep(e) <= 2
                /\ (ex[e].bulk_answer = "rows" /\ ReturnStep(e)) =>
                      AllWindowsDone(jobs'[ex[e].job_id])]_vars

(* a poll whose bulk pre-fetch answered nothing has completed two of three *)
(* missing windows and is about to leave the job running                   *)
C21_Witness ==
    \E e \in Executors :
        /\ ~background_enabled
        /\ ex[e].pc = "yield" /\ ex[e].bulk_answer \in {"raised", "empty"}
        /\ ex[e].done_at_start = 0
        /\ jobs[ex[e].job_id].missing_windows = 3
        /\ CountWindows(jobs[ex[e].job_id].windows_json, {"complete"}) = 2

(* C22: under fair scheduling every job reaches complete or failed, through *)
(* its thread alone with background execution and through the client's     *)
(* polls without; it is failed only with the error of a failed upstream     *)
(* call recorded, so that it becomes complete if every upstream call        *)
(* succeeds; and every worker run returns, whatever upstream answers        *)
C22_EventuallyComplete ==
    /\ \A j \in JobIds :
          (j \in DOMAIN jobs)
             ~> (/\ j \in DOMAIN jobs
                 /\ \/ jobs[j].status = "complete" /\ AllWindowsDone(jobs[j])
                    \/ /\ jobs[j].status = "failed"
                       /\ jobs[j].error_detail \in UpstreamErrors)
    /\ \A e \in Executors : (ex[e].pc # "idle") ~> (ex[e].pc = "idle")

(* three missing windows were completed by polls alone, each at its first attempt *)
C22_Witness ==
    \E j \in DOMAIN jobs :
        /\ ~background_enabled
        /\ jobs[j].missing_windows = 3
        /\ jobs[j].status = "complete" /\ AllWindowsDone(jobs[j])
        /\ \A i \in 1..3 : jobs[j].windows_json[i].attempts = 1
        /\ \A e \in Executors : ex[e].pc = "idle"

ConsistentSnapshot(p) ==
    LET ws == p.windows_json
        done == {i \in 1..Len(ws) : ws[i].status = "cached" \/ ws[i].status = "complete"}
    IN  /\ p.completed_windows = Cardinality(done)
        /\ p.completed_api_calls = SumSeq([i \in 1..Len(ws) |-> ws[i].apiCallsCompleted])
        /\ p.cached_windows + p.missing_windows = p.total_windows
        /\ p.total_windows = Len(ws)
        /\ p.playback_ready <=> (p.completed_windows = p.total_windows)

(* C23: in every persisted job completed_windows is the number of windows   *)
(* that are cached or complete, completed_api_calls the sum of the windows' *)
(* apiCallsCompleted, cached_windows + missing_windows = total_windows, and *)
(* playback_ready holds exactly when completed_windows = total_windows      *)
C23_ConsistentSnapshots ==
    \A j \in DOMAIN jobs : ConsistentSnapshot(jobs[j])

(* a running job as persisted between two attempts: one window complete, the *)
(* next pending with a failed attempt                                       *)
C23_Witness ==
    \E j \in DOMAIN jobs :
        LET ws == jobs[j].windows_json
        IN  /\ jobs[j].status = "running" /\ Len(ws) = 3
            /\ ws[1].status = "cached" /\ ws[2].status = "complete"
            /\ ws[3].status = "pending" /\ ws[3].attempts = 2
            /\ jobs[j].completed_windows = 2 /\ jobs[j].completed_api_calls = 2
            /\ ~jobs[j].playback_ready

StatusResponses == {_to_query_job_status_response(jobs[j]) : j \in DOMAIN jobs}

CallsWithinPlan(r) ==
    /\ 0 <= r.completedApiCalls /\ r.completedApiCalls <= r.totalApiCallsPlanned
    /\ 0 <= r.percent /\ r.percent <= 100 * 100

(* C24 as stated: the projection of every job a poll can read has percent   *)
(* = completedApiCalls / totalApiCallsPlanned * 100 when calls were         *)
(* planned, 100 when none were and the job is complete, 0 otherwise, and    *)
(* 0 <= completedApiCalls <= totalApiCallsPlanned, 0 <= percent <= 100      *)
C24_PercentIsTheQuotient ==
    \A r \in StatusResponses :
        /\ r.totalApiCallsPlanned > 0
              => r.percent * r.totalApiCallsPlanned = r.completedApiCalls * 100 * 100
        /\ r.totalApiCallsPlanned = 0
              => r.percent = (IF r.status = "complete" THEN 100 * 100 ELSE 0)
        /\ CallsWithinPlan(r)

(* C24 amended: when calls were planned, percent is that quotient rounded   *)
(* to two decimals (off by at most half a hundredth); the other cases and   *)
(* the bounds are as stated                                                 *)
C24_PercentIsTheRoundedQuotient ==
    \A r \in StatusResponses :
        LET off == r.percent * r.totalApiCallsPlanned - r.completedApiCalls * 100 * 100
        IN  /\ r.totalApiCallsPlanned > 0
                  => /\ 2 * off <= r.totalApiCallsPlanned
                     /\ 2 * (0 - off) <= r.totalApiCallsPlanned
            /\ r.totalApiCallsPlanned = 0
                  => r.percent = (IF r.status = "complete" THEN 100 * 100 ELSE 0)
            /\ CallsWithinPlan(r)

(* one of three planned windows is done: 2 of 6 calls, reported as 33.33   *)
C24_Witness ==
    \E r \in StatusResponses :
        /\ r.status = "running"
        /\ r.totalApiCallsPlanned = 6 /\ r.completedApiCalls = 2 /\ r.percent = 3333

IssueStep(c) == tg[c].pc = "get" /\ tg'[c].pc = "inflight"

(* C25: whichever thread sends a request, it is sent no earlier than the    *)
(* minimum interval after the previous response came in and no earlier than *)
(* the end of the cooldown set by 429 responses, and while it is under way  *)
(* no other thread is past the gate                                         *)
C25_RequestsAreSpacedOut ==
    [][\A c \in Callers :
          IssueStep(c) =>
             /\ http.completed # <<>>
                   => monotonic >= http.completed[1] + min_request_interval_seconds
             /\ monotonic >= http.cooldown_until
             /\ \A d \in Callers \ {c} : tg[d].pc = "idle"]_vars

(* a request of one thread is under way; it slept until the end of the      *)
(* cooldown that a 429 response to the other thread had set                 *)
C25_Witness ==
    \E c \in Callers :
        /\ tg[c].pc = "inflight" /\ tg[c].slept
        /\ http.status = 429 /\ http.by # c /\ http.by # NoneV
        /\ http.cooldown_until > http.completed[1] + min_request_interval_seconds
        /\ tg[c].issued_at = http.cooldown_until

(* C28: after a 429 response the cooldown applied is the Retry-After value  *)
(* capped to aemet_retry_after_cap_seconds: the limiter is closed for no    *)
(* more than the cap after the response came in                             *)
C28_CooldownIsCapped ==
    (http.status = 429 /\ http.retry_after.kind = "number")
        => _rate_limited_until_monotonic - http.completed[1]
              <= aemet_retry_after_cap_seconds

(* C26: a thread that holds _query_job_lock is inside the check-then-start  *)
(* of _start_query_job_thread; it is neither in an upstream call nor in a   *)
(* backoff sleep                                                            *)
C26_NoCallUnderTheRegistryLock ==
    \A t \in RequestThreads \cup WorkerThreads :
        _query_job_lock = t => th[t].pc \in {"check", "started"}

(* the lock is still held by the request that has just started a worker,    *)
(* and that worker is already in an upstream call; the other request is in  *)
(* a backoff sleep                                                          *)
C26_Witness ==
    \E t \in RequestThreads, w \in WorkerThreads :
        /\ _query_job_lock = t /\ th[t].pc = "started"
        /\ th[w].pc = "upstream_call"
        /\ \E u \in RequestThreads \ {t} : th[u].pc = "backoff_sleep"

EntryOf(kind) == gd.pc = "idle" /\ gd'.pc # "idle" /\ gd'.kind = kind

RejectedAtEntry ==
    /\ gd'.pc = "raised" /\ gd'.error \in {"AppValidationError", "ValueError"}
    /\ gd'.windows = <<>>
    /\ UNCHANGED <<fetch_windows, measurements, jobs>>

BadStation(station_id) ==
    station_id \notin KnownAntarcticStations \/ station_id \notin _selectable_meteo_station_ids

(* a create_query_job that is refused writes nothing, and one that writes a *)
(* job was given a selectable station and a range that is not empty         *)
CreateValidatesFirst ==
    /\ (resp' # resp /\ resp'.error # "none") => UNCHANGED <<fetch_windows, measurements, jobs>>
    /\ \A j \in DOMAIN jobs' \ DOMAIN jobs :
          /\ ~BadStation(jobs'[j].station_id)
          /\ jobs'[j].history_start_utc < jobs'[j].effective_end_utc
          /\ resp'.error = "none"
    /\ UNCHANGED <<fetch_windows, measurements>> \/ gd.pc = "loop"

StepChain == <<"10m", "1h", "3h", "1d">>

StepIndex(step) == CHOOSE i \in 1..4 : StepChain[i] = step

(* C29: the effective step is not finer than the requested one, and it is   *)
(* the first step from the requested one on, along 10 min, 1 h, 3 h, 1 day, *)
(* for which floor(range / step) + 1 is at most 1,500, or 1 day if there is *)
(* none                                                                     *)
C29_FirstStepThatFits ==
    pf.pc = "return" =>
        LET range == pf.end_local - pf.start_local
            minutes(i) == <<10, 60, 180, 1440>>[i]
            fits == {i \in StepIndex(pf.step)..4 : ((range * 10) \div minutes(i)) + 1 <= 1500}
        IN  /\ StepIndex(pf.effective_step) >= StepIndex(pf.step)
            /\ pf.effective_step =
                  IF fits = {} THEN "1d"
                  ELSE StepChain[CHOOSE i \in fits : \A k \in fits : i <= k]

(* a request for 10-minute frames over 1,500 hours: 1 h still gives 1,501   *)
(* frames, so the step goes two places along the chain                      *)
C29_Witness ==
    /\ pf.pc = "return" /\ pf.step = "10m" /\ pf.effective_step = "3h"
    /\ pf.end_local - pf.start_local = 1500 * 6

(* C30: whatever the range and the requested step, get_playback_frames      *)
(* returns at most 1,500 frames                                             *)
C30_AtMost1500Frames ==
    pf.pc = "return" => pf.frames <= 1500

(* ---------------- analysis computations on rows ---------------- *)

(* everything an analysis computation leaves alone *)
analysisFrame == <<pl_start, pl_end, pl_out, fetch_windows, measurements, now, req_station, gd,
                   recovered, jobVars, clientVars, lockVars, pf>>

(* the service around an analysis computation: nothing stored, nothing running *)
ServiceIdle ==
    /\ pl_start = MinTime /\ pl_end = MinTime /\ pl_out = PlannerIdle
    /\ fetch_windows = {}
    /\ measurements = EmptyTable
    /\ now = MaxTime
    /\ req_station = "89064"
    /\ gd = IdleCall
    /\ recovered = EmptyTable
    /\ JobsIdle
    /\ ClientIdle
    /\ LockIdle
    /\ pf = NoFrames

(* ---------------- Aggregation Engine: circular mean of directions ---------------- *)

(* an optional number: None, or a value *)
NoneNumber == [is_none |-> TRUE, value |-> 0]
Number(value) == [is_none |-> FALSE, value |-> value]

(* a double that is the sum of at most two of the values cos and sin take on *)
(* multiples of 90 degrees: a whole part, and when that is 0 a tiny part in   *)
(* units of 6.1e-17, which is what radians() leaves because it rounds pi;     *)
(* next to a whole part the tiny part is below the last digits that           *)
(* round(..., 3) keeps                                                         *)
Double(whole, tiny) == [whole |-> whole, tiny |-> tiny]

(* cos(radians(a)): 1.0, 6.123e-17, -1.0, -1.837e-16 *)
cos_radians(a) ==
    IF a = 0 THEN Double(1, 0)
    ELSE IF a = 90 THEN Double(0, 1)
    ELSE IF a = 180 THEN Double(0 - 1, 0)
    ELSE Double(0, 0 - 3)

(* sin(radians(a)): 0.0, 1.0, 1.2246e-16, -1.0 *)
sin_radians(a) ==
    IF a = 0 THEN Double(0, 0)
    ELSE IF a = 90 THEN Double(1, 0)
    ELSE IF a = 180 THEN Double(0, 2)
    ELSE Double(0 - 1, 0)

float_add(a, b) ==
    IF a.whole + b.whole # 0
    THEN Double(a.whole + b.whole, 0)
    ELSE Double(0, a.tiny + b.tiny)

RECURSIVE float_sum(_)
float_sum(terms) ==
    IF terms = <<>> THEN Double(0, 0)
    ELSE float_add(float_sum(SubSeq(terms, 1, Len(terms) - 1)), terms[Len(terms)])

Sign(n) == IF n > 0 THEN 1 ELSE IF n < 0 THEN 0 - 1 ELSE 0

(* round((atan2(y, x) * 180.0 / pi) % 360, 3), in degrees, for x and y not both 0 *)
atan2_degrees(y, x) ==
    IF x.whole # 0 /\ y.whole # 0
    THEN (IF Sign(x.whole) = 1
          THEN (IF Sign(y.whole) = 1 THEN 45 ELSE 315)
          ELSE (IF Sign(y.whole) = 1 THEN 135 ELSE 225))
    ELSE IF x.whole # 0
    THEN (IF x.whole > 0 THEN (IF y.tiny < 0 THEN 360 ELSE 0) ELSE 180)
    ELSE IF y.whole # 0
    THEN (IF y.whole > 0 THEN 90 ELSE 270)
    ELSE IF x.tiny = 0
    THEN (IF y.tiny > 0 THEN 90 ELSE 270)
    ELSE (IF x.tiny > 0 THEN 0 ELSE 180)

avg_angle_deg(values) ==
    LET angles == SelectSeq(values, LAMBDA v : ~v.is_none)
        x == float_sum([i \in 1..Len(angles) |-> cos_radians(angles[i].value)])
        y == float_sum([i \in 1..Len(angles) |-> sin_radians(angles[i].value)])
    IN  IF angles = <<>>
        THEN NoneNumber
        ELSE IF x = Double(0, 0) /\ y = Double(0, 0)
        THEN NoneNumber
        ELSE Number(atan2_degrees(y, x))

TimeAggregations == {"none", "hourly", "daily", "monthly"}

(* row times are minutes of local time counted from the start of a month *)
bucket_key(minute, aggregation) ==
    IF aggregation = "hourly" THEN minute - (minute % 60)
    ELSE IF aggregation = "daily" THEN minute - (minute % 1440)
    ELSE 0

RECURSIVE SortedKeys(_)
SortedKeys(keys) ==
    IF keys = {} THEN <<>>
    ELSE LET first == CHOOSE k \in keys : \A q \in keys : k <= q
         IN  <<first>> \o SortedKeys(keys \ {first})

(* _aggregate, for the time and the direction of the rows *)
_aggregate(rows, aggregation) ==
    IF aggregation = "none"
    THEN rows
    ELSE LET keyOf(i) == bucket_key(rows[i].minute, aggregation)
             keys == SortedKeys({keyOf(i) : i \in 1..Len(rows)})
             items(key) == SelectSeq(rows, LAMBDA row : bucket_key(row.minute, aggregation) = key)
         IN  [k \in 1..Len(keys) |->
                [minute |-> keys[k],
                 direction_deg |-> avg_angle_deg(
                     [i \in 1..Len(items(keys[k])) |-> items(keys[k])[i].direction_deg])]]

(* readings of one or two rows: 00:05, 00:15 and 01:05 of the first day *)
RowMinutes == {5, 15, 65}
Directions == {0, 90, 180, 270}
DirectionValues == {NoneNumber} \cup {Number(d) : d \in Directions}
SourceRows == [minute : RowMinutes, direction_deg : DirectionValues]
RowLists ==
    {<<a>> : a \in SourceRows}
        \cup {pair \in SourceRows \X SourceRows : pair[2].minute > pair[1].minute}

InitAggregate ==
    /\ ServiceIdle
    /\ \E rows \in RowLists, aggregation \in TimeAggregations :
          an = [pc |-> "call", op |-> "_aggregate", rows |-> rows,
                aggregation |-> aggregation, out |-> <<>>]

aggregate ==
    /\ an.pc = "call" /\ an.op = "_aggregate"
    /\ an' = [an EXCEPT !.pc = "return", !.out = _aggregate(an.rows, an.aggregation)]
    /\ UNCHANGED analysisFrame

NextAggregate == aggregate

SpecAggregate == InitAggregate /\ [][NextAggregate]_vars

(* ---------------- Timeframe Engine: season buckets ---------------- *)

_season_label(month) ==
    IF month \in {12, 1, 2} THEN "DJF"
    ELSE IF month \in {3, 4, 5} THEN "MAM"
    ELSE IF month \in {6, 7, 8} THEN "JJA"
    ELSE "SON"

season_year(season, year, month) ==
    IF season = "DJF"
    THEN (IF month = 12 THEN year ELSE year - 1)
    ELSE year

(* the key (label, start, end) of the season bucket of an observation made in *)
(* the given month of station-local time; end is start + 92 days              *)
season_bucket_key(year, month) ==
    LET season == _season_label(month)
        year_start == season_year(season, year, month)
        month_start == IF season = "DJF" THEN 12
                       ELSE IF season = "MAM" THEN 3
                       ELSE IF season = "JJA" THEN 6
                       ELSE 9
    IN  [label |-> <<year_start, season>>, start |-> <<year_start, month_start>>]

RECURSIVE SortedByStart(_)
SortedByStart(keys) ==
    IF keys = {} THEN <<>>
    ELSE LET first == CHOOSE k \in keys :
                         \A q \in keys : \/ k.start[1] < q.start[1]
                                         \/ k.start[1] = q.start[1] /\ k.start[2] <= q.start[2]
         IN  <<first>> \o SortedByStart(keys \ {first})

(* _group_timeframe_buckets with group_by = season: the buckets in the order *)
(* of their starts, each with its label and the rows it holds                *)
_group_timeframe_buckets(rows) ==
    LET keyOf(i) == season_bucket_key(rows[i].year, rows[i].month)
        keys == SortedByStart({keyOf(i) : i \in 1..Len(rows)})
    IN  [k \in 1..Len(keys) |->
            [label |-> keys[k].label, start |-> keys[k].start,
             points |-> {i \in 1..Len(rows) : keyOf(i) = keys[k]},
             dataPoints |-> Cardinality({i \in 1..Len(rows) : keyOf(i) = keys[k]})]]

(* two observations, each in some month of one of two consecutive years *)
FirstYear == 2023
ObservationMonths == [year : {FirstYear, FirstYear + 1}, month : 1..12]

InitSeasons ==
    /\ ServiceIdle
    /\ \E first \in ObservationMonths, second \in ObservationMonths :
          an = [pc |-> "call", op |-> "_group_timeframe_buckets",
                rows |-> <<first, second>>, out |-> <<>>]

group_timeframe_buckets ==
    /\ an.pc = "call" /\ an.op = "_group_timeframe_buckets"
    /\ an' = [an EXCEPT !.pc = "return", !.out = _group_timeframe_buckets(an.rows)]
    /\ UNCHANGED analysisFrame

NextSeasons == group_timeframe_buckets

SpecSeasons == InitSeasons /\ [][NextSeasons]_vars

(* ---------------- Wind rose ---------------- *)

(* bearings count hundredths of a degree, speeds tenths of a metre per second *)
sectors ==
    <<"N", "NNE", "NE", "ENE", "E", "ESE", "SE", "SSE",
      "S", "SSW", "SW", "WSW", "W", "WNW", "NW", "NNW">>

(* the direction the rose bins a bearing under: the bearing itself, in [0, 360) *)
wind_toward_direction_deg(direction_deg) ==
    IF direction_deg.is_none THEN NoneNumber ELSE Number(direction_deg.value % 36000)

sector_index_floor(direction) == direction \div 2250

(* int(((direction + 11.25) % 360) // 22.5), an index into bins, from 0 *)
sector_index(direction) == ((direction + 1125) % 36000) \div 2250

speed_bucket(speed) ==
    IF speed < 30 THEN "calm"
    ELSE IF speed < 80 THEN "breeze"
    ELSE IF speed < 120 THEN "strong"
    ELSE "gale"

(* the rows the loop counts, and the bin of each *)
directional_rows(rows) ==
    {i \in 1..Len(rows) :
        /\ ~rows[i].direction_deg.is_none /\ ~rows[i].speed_mps.is_none
        /\ ~wind_toward_direction_deg(rows[i].direction_deg).is_none}

bin_of(row) == sector_index(wind_toward_direction_deg(row.direction_deg).value)

(* shares are thousandths: round(a / b, 3) *)
_build_wind_rose(rows) ==
    LET counted == directional_rows(rows)
        directional_points == Cardinality(counted)
        calm_points == Cardinality({i \in counted : rows[i].speed_mps.value < 30})
        bins == [k \in 1..16 |->
                    [sector |-> sectors[k],
                     speedBuckets |->
                        [b \in {"calm", "breeze", "strong", "gale"} |->
                            Cardinality({i \in counted : /\ bin_of(rows[i]) = k - 1
                                                         /\ speed_bucket(rows[i].speed_mps.value) = b})],
                     totalCount |-> Cardinality({i \in counted : bin_of(rows[i]) = k - 1})]]
        dominant == CHOOSE k \in 1..16 :
                        /\ \A q \in 1..16 : bins[q].totalCount <= bins[k].totalCount
                        /\ \A q \in 1..(k - 1) : bins[q].totalCount < bins[k].totalCount
        dominant_total == bins[dominant].totalCount
    IN  [bins |-> bins,
         dominantSector |-> IF dominant_total > 0 THEN bins[dominant].sector ELSE NoneV,
         directionalConcentration |->
            IF directional_points > 0
            THEN Number(round(1000 * dominant_total, directional_points))
            ELSE NoneNumber,
         calmShare |->
            IF directional_points > 0
            THEN Number(round(1000 * calm_points, directional_points))
            ELSE NoneNumber]

MaxRosePoints == 2

Bearings == {0, 1125, 16900, 18000, 19124, 35999}
RoseSpeeds == {0, 29, 60, 120}
RosePoints ==
    [direction_deg : {NoneNumber} \cup {Number(d) : d \in Bearings},
     speed_mps : {NoneNumber} \cup {Number(v) : v \in RoseSpeeds}]
RoseRows == UNION {[1..n -> RosePoints] : n \in 1..MaxRosePoints}

InitWindRose ==
    /\ ServiceIdle
    /\ \E rows \in RoseRows :
          an = [pc |-> "call", op |-> "_build_wind_rose", rows |-> rows,
                out |-> _build_wind_rose(<<>>)]

build_wind_rose ==
    /\ an.pc = "call" /\ an.op = "_build_wind_rose"
    /\ an' = [an EXCEPT !.pc = "return", !.out = _build_wind_rose(an.rows)]
    /\ UNCHANGED analysisFrame

NextWindRose == build_wind_rose

SpecWindRose == InitWindRose /\ [][NextWindRose]_vars

(* ---------------- Generation simulation ---------------- *)

(* speeds count tenths of a metre per second, temperatures tenths of a degree, *)
(* pressures hPa, densities grams per cubic metre, power watts                 *)
NoParams == [is_none |-> TRUE]

WindFarmSimulationParams(limits) ==
    [is_none |-> FALSE, turbine_count |-> 6, rated_power_kw |-> 900,
     cut_in_speed_mps |-> 30, rated_speed_mps |-> 60, cut_out_speed_mps |-> 100,
     reference_air_density_kgm3 |-> 1225,
     min_operating_temp_c |-> IF limits THEN Number(0 - 400) ELSE NoneNumber,
     max_operating_temp_c |-> IF limits THEN Number(450) ELSE NoneNumber,
     min_operating_pressure_hpa |-> IF limits THEN Number(850) ELSE NoneNumber,
     max_operating_pressure_hpa |-> IF limits THEN Number(1085) ELSE NoneNumber]

(* pressure * 100 / (287.05 * kelvin), to the gram *)
_air_density_kgm3(row, fallback_density_kgm3) ==
    IF row.pressure_hpa.is_none \/ row.temperature_c.is_none
    THEN fallback_density_kgm3
    ELSE LET kelvin == row.temperature_c.value * 10 + 27315
             density == IF kelvin <= 0 THEN 0
                        ELSE (row.pressure_hpa.value * 100000) \div ((28705 * kelvin) \div 10000)
         IN  IF kelvin <= 0 THEN fallback_density_kgm3
             ELSE IF density > 0 THEN density ELSE fallback_density_kgm3

_within_operating_envelope(row, params) ==
    LET temperature == row.temperature_c
        pressure == row.pressure_hpa
    IN  IF /\ ~temperature.is_none /\ ~params.min_operating_temp_c.is_none
           /\ temperature.value < params.min_operating_temp_c.value
        THEN FALSE
        ELSE IF /\ ~temperature.is_none /\ ~params.max_operating_temp_c.is_none
                /\ temperature.value > params.max_operating_temp_c.value
        THEN FALSE
        ELSE IF /\ ~pressure.is_none /\ ~params.min_operating_pressure_hpa.is_none
                /\ pressure.value < params.min_operating_pressure_hpa.value
        THEN FALSE
        ELSE IF /\ ~pressure.is_none /\ ~params.max_operating_pressure_hpa.is_none
                /\ pressure.value > params.max_operating_pressure_hpa.value
        THEN FALSE
        ELSE TRUE

Cube(n) == n * n * n

(* effective_speed = speed * density_ratio ** (1/3) is compared through its *)
(* cube: effective_speed ** 3 * reference_density = speed ** 3 * density    *)
effective_speed_cubed(row, params) ==
    Cube(row.speed_mps.value)
        * Max(0, _air_density_kgm3(row, params.reference_air_density_kgm3))

speed_cubed(speed, params) == Cube(speed) * params.reference_air_density_kgm3

power_kw_above_cut_out(row, params) ==
    LET rated_total_kw == params.turbine_count * params.rated_power_kw
        effective == effective_speed_cubed(row, params)
        cut_in == speed_cubed(params.cut_in_speed_mps, params)
        rated == speed_cubed(params.rated_speed_mps, params)
        cut_out == speed_cubed(params.cut_out_speed_mps, params)
        ratio == (effective - cut_in) \div ((rated - cut_in) \div 1000)
    IN  IF effective < cut_in \/ effective > cut_out
        THEN 0
        ELSE IF effective >= rated
        THEN rated_total_kw * 1000
        ELSE rated_total_kw * Max(0, Min(1000, ratio))

(* the power of one counted row, in watts; the ramp is kept to a thousandth of *)
(* the rated power                                                             *)
power_kw(row, params) ==
    LET rated_total_kw == params.turbine_count * params.rated_power_kw
        effective == effective_speed_cubed(row, params)
        cut_in == speed_cubed(params.cut_in_speed_mps, params)
        rated == speed_cubed(params.rated_speed_mps, params)
        cut_out == speed_cubed(params.cut_out_speed_mps, params)
        ratio == (effective - cut_in) \div ((rated - cut_in) \div 1000)
    IN  IF effective < cut_in \/ effective >= cut_out
        THEN 0
        ELSE IF effective >= rated
        THEN rated_total_kw * 1000
        ELSE rated_total_kw * Max(0, Min(1000, ratio))

(* rows are 10 minutes apart, so that every step_hours is 1/6; the result is *)
(* the energy in thousandths of a MWh and, for each row, whether the loop    *)
(* counted it and with what power                                            *)
_estimate_generation_mwh(rows, params) ==
    LET counted(i) == /\ ~rows[i].speed_mps.is_none
                      /\ _within_operating_envelope(rows[i], params)
        powers == [i \in 1..Len(rows) |->
                      IF counted(i)
                      THEN [counted |-> TRUE, power_kw |-> power_kw(rows[i], params)]
                      ELSE [counted |-> FALSE, power_kw |-> 0]]
    IN  IF params.is_none
        THEN [energy_mwh |-> NoneNumber, powers |-> <<>>]
        ELSE IF params.turbine_count * params.rated_power_kw <= 0
        THEN [energy_mwh |-> NoneNumber, powers |-> <<>>]
        ELSE IF ~(/\ 0 <= params.cut_in_speed_mps
                  /\ params.cut_in_speed_mps < params.rated_speed_mps
                  /\ params.rated_speed_mps < params.cut_out_speed_mps)
        THEN [energy_mwh |-> NoneNumber, powers |-> <<>>]
        ELSE IF params.reference_air_density_kgm3 <= 0
        THEN [energy_mwh |-> NoneNumber, powers |-> <<>>]
        ELSE IF rows = <<>>
        THEN [energy_mwh |-> NoneNumber, powers |-> <<>>]
        ELSE [energy_mwh |-> Number(round(SumSeq([i \in 1..Len(rows) |-> powers[i].power_kw]),
                                          6000)),
              powers |-> powers]

MaxGenerationPoints == 2

GenerationPoints ==
    [speed_mps : {NoneNumber} \cup {Number(v) : v \in {29, 55, 60, 100}},
     temperature_c : {NoneNumber} \cup {Number(t) : t \in {0 - 500, 0 - 400, 300}},
     pressure_hpa : {NoneNumber} \cup {Number(q) : q \in {900, 1085}}]
GenerationRows == UNION {[1..n -> GenerationPoints] : n \in 1..MaxGenerationPoints}
SimulationParams == {NoParams, WindFarmSimulationParams(TRUE), WindFarmSimulationParams(FALSE)}

InitGeneration ==
    /\ ServiceIdle
    /\ \E rows \in GenerationRows, params \in SimulationParams :
          an = [pc |-> "call", op |-> "_estimate_generation_mwh", rows |-> rows,
                params |-> params, out |-> [energy_mwh |-> NoneNumber, powers |-> <<>>]]

estimate_generation_mwh ==
    /\ an.pc = "call" /\ an.op = "_estimate_generation_mwh"
    /\ an' = [an EXCEPT !.pc = "return",
                        !.out = _estimate_generation_mwh(an.rows, an.params)]
    /\ UNCHANGED analysisFrame

NextGeneration == estimate_generation_mwh

SpecGeneration == InitGeneration /\ [][NextGeneration]_vars

(* ---------------- Playback Frame Builder: the frames of the grid ---------------- *)

NoRow == [is_none |-> TRUE, datetime |-> 0, speed |-> NoneNumber]

(* row_map: the row kept for a slot is the last of the rows floored to it *)
row_map_get(rows, key, step) ==
    LET at == {i \in 1..Len(rows) : _floor_to_step(rows[i].datetime, step) = key}
    IN  IF at = {} THEN NoRow
        ELSE rows[CHOOSE i \in at : \A k \in at : k <= i]

last_observed_of_slot(matched, last_observed) == matched

(* last_observed after a pass of the loop, matched being the row of the *)
(* slot or None                                                         *)
last_observed_after(matched, last_observed) ==
    IF matched.is_none THEN last_observed ELSE matched

RECURSIVE frames_loop(_, _, _, _, _)
frames_loop(rows, cursor, aligned_end, step, last_observed) ==
    IF cursor > aligned_end
    THEN <<>>
    ELSE LET found == row_map_get(rows, cursor, step)
             matched == IF found.is_none THEN last_observed ELSE found
             quality == IF found.is_none THEN "gap_filled"
                        ELSE IF step = "10m" THEN "observed" ELSE "aggregated"
         IN  <<[datetime |-> cursor, speed |-> matched.speed, qualityFlag |-> quality]>>
                \o frames_loop(rows, cursor + _step_delta(step), aligned_end, step,
                               last_observed_after(found, last_observed))

(* _rows_to_frames with the frames themselves: time, speed and quality flag *)
_rows_to_frames_list(rows, start_local, end_local, step) ==
    IF rows = <<>> /\ start_local >= end_local
    THEN <<>>
    ELSE frames_loop(rows, _floor_to_step(start_local, step), end_local, step, NoRow)

MaxFrameSlots == 3

(* requests of up to MaxFrameSlots steps; rows every 10 minutes or less often *)
(* inside the range, each with a speed that tells it from the others          *)
GridSteps == {"10m", "1h"}
GridStarts == {0, 1, 6}
GridRowTimes(start_local, end_local) ==
    {t \in start_local..end_local : (t - start_local) % 2 = 0 \/ t % 6 = 0}

RECURSIVE RowsOf(_)
RowsOf(times) ==
    IF times = {} THEN <<>>
    ELSE LET first == CHOOSE t \in times : \A u \in times : t <= u
         IN  <<[is_none |-> FALSE, datetime |-> first, speed |-> Number(100 + first)]>>
                \o RowsOf(times \ {first})

InitGapFill ==
    /\ ServiceIdle
    /\ \E step \in GridSteps, start_local \in GridStarts, slots \in 1..MaxFrameSlots :
          \E times \in SUBSET GridRowTimes(start_local, start_local + slots * _step_delta(step)) :
              /\ Cardinality(times) <= MaxFrameSlots
              /\ an = [pc |-> "call", op |-> "_rows_to_frames", rows |-> RowsOf(times),
                       start_local |-> start_local,
                       end_local |-> start_local + slots * _step_delta(step),
                       step |-> step, out |-> <<>>]

rows_to_frames ==
    /\ an.pc = "call" /\ an.op = "_rows_to_frames"
    /\ an' = [an EXCEPT !.pc = "return",
                        !.out = _rows_to_frames_list(an.rows, an.start_local,
                                                     an.end_local, an.step)]
    /\ UNCHANGED analysisFrame

NextGapFill == rows_to_frames

SpecGapFill == InitGapFill /\ [][NextGapFill]_vars

InFlight == {c \in Callers : tg[c].pc = "inflight"}

(* C40: at most one upstream request is under way at any time, whatever the *)
(* thread, and no step moves the cooldown deadline to an earlier time       *)
C40_OneRequestAtATimeAndCooldownOnlyExtended ==
    [][/\ Cardinality(InFlight') <= 1
       /\ \A c \in InFlight' : _request_lock' = c
       /\ _rate_limited_until_monotonic' >= _rate_limited_until_monotonic]_vars

(* a 429 with Retry-After 60 set the deadline, the next request waited for  *)
(* it and was answered 429 with Retry-After 1: the deadline has moved on to *)
(* one second after that answer                                            *)
C40_Witness ==
    /\ http.status = 429 /\ http.retry_after = [kind |-> "number", value |-> 1]
    /\ _rate_limited_until_monotonic = http.completed[1] + 1
    /\ _rate_limited_until_monotonic > 60
    /\ _request_lock = "free"

(* C36: a persisted job with status complete has every window cached or     *)
(* complete, whatever runs came before, a run taking up a window whose      *)
(* persisted attempts already equal max_attempts included                   *)
C36_CompleteOnlyWithAllWindowsDone ==
    \A j \in DOMAIN jobs :
        jobs[j].status = "complete" => AllWindowsDone(jobs[j])

RecordOfWindow(p, i) ==
    \E r \in fetch_windows :
        /\ r.station_id = p.station_id
        /\ r.start_utc = p.windows_json[i].startUtc
        /\ r.end_utc = p.windows_json[i].endUtc

(* C37: a window of a persisted job that is cached or complete has a        *)
(* fetch-window record for exactly its range in the store, and a complete   *)
(* job has such a record for every planned window                           *)
C37_DoneWindowsHaveRecords ==
    \A j \in DOMAIN jobs :
        /\ \A i \in 1..Len(jobs[j].windows_json) :
              jobs[j].windows_json[i].status \in {"cached", "complete"}
                 => RecordOfWindow(jobs[j], i)
        /\ jobs[j].status = "complete"
              => \A i \in 1..Len(jobs[j].windows_json) : RecordOfWindow(jobs[j], i)

MaxFramesPlanned == 7

(* frames_planned is written once, at creation, and is at least 1 *)
FramesPlanned == 1..MaxFramesPlanned

frames_ready(completed_windows, total_windows, frames_planned) ==
    Min(frames_planned, (completed_windows * frames_planned) \div Max(total_windows, 1))

ProgressKept(old, new) ==
    /\ new.completed_windows >= old.completed_windows
    /\ new.completed_api_calls >= old.completed_api_calls
    /\ \A frames_planned \in FramesPlanned :
          frames_ready(new.completed_windows, new.total_windows, frames_planned)
             >= frames_ready(old.completed_windows, old.total_windows, frames_planned)
    /\ Len(new.windows_json) = Len(old.windows_json)
    /\ \A i \in 1..Len(old.windows_json) :
          /\ old.windows_json[i].status \in {"cached", "complete"}
                => new.windows_json[i].status \in {"cached", "complete"}
          /\ new.windows_json[i].attempts >= old.windows_json[i].attempts

(* C38: from one persisted snapshot of a job to the next, completed_windows, *)
(* completed_api_calls and frames_ready do not decrease, a window that is    *)
(* cached or complete stays so, and no window's attempt counter decreases    *)
C38_ProgressIsMonotonic ==
    [][\A j \in DOMAIN jobs \cap DOMAIN jobs' : ProgressKept(jobs[j], jobs'[j])]_vars

CachedWindows(table) == {<<r.station_id, r.start_utc, r.end_utc>> : r \in table}

(* C39: no step of a retrieval, refresh, availability or direction-recovery *)
(* operation removes a measurement key or a fetch-window key, and a window  *)
(* that has_cached_fetch_window reports as cached is reported so afterwards *)
C39_StoreOnlyGrows ==
    [][/\ DOMAIN measurements \subseteq DOMAIN measurements'
       /\ CachedWindows(fetch_windows) \subseteq CachedWindows(fetch_windows')
       /\ \A r \in fetch_windows :
             has_cached_fetch_window(fetch_windows', r.station_id, r.start_utc, r.end_utc)]_vars

C39_Witness ==
    /\ gd.kind = "get_latest_availability" /\ gd.pc = "done" /\ gd.last = "rows"
    /\ gd.records_at_start > 0
    /\ Cardinality(fetch_windows) > gd.records_at_start
    /\ \E r \in fetch_windows : r.station_id = gd.station_id /\ r.direction_checked
    /\ \E r \in fetch_windows : r.station_id = gd.station_id /\ r.fetched_at_utc = MinTime

(* C32: when an aggregation bucket holds exactly the directions 0 and 180 *)
(* degrees, whose unit vectors cancel, the aggregated direction is null    *)
C32_CancellingDirectionsGiveNull ==
    (/\ an.pc = "return" /\ an.op = "_aggregate"
     /\ an.aggregation # "none"
     /\ Len(an.rows) = 2 /\ Len(an.out) = 1
     /\ {an.rows[1].direction_deg, an.rows[2].direction_deg} = {Number(0), Number(180)})
        => an.out[1].direction_deg.is_none

SeasonsReturned == an.pc = "return" /\ an.op = "_group_timeframe_buckets"

(* the bucket of the result that holds row i *)
BucketOf(i) == CHOOSE k \in 1..Len(an.out) : i \in an.out[k].points

WinterOfDecember(i, k) ==
    /\ an.rows[i].month = 12
    /\ an.rows[k].month \in {1, 2}
    /\ an.rows[k].year = an.rows[i].year + 1

(* C35: a December observation of year Y is in the bucket labelled DJF of   *)
(* year Y+1, together with the January and February observations of Y+1     *)
C35_DecemberIsLabelledWithTheNextYear ==
    SeasonsReturned =>
        \A i \in 1..Len(an.rows) :
            an.rows[i].month = 12 =>
                /\ an.out[BucketOf(i)].label = <<an.rows[i].year + 1, "DJF">>
                /\ \A k \in 1..Len(an.rows) : WinterOfDecember(i, k) => BucketOf(k) = BucketOf(i)

RoseReturned == an.pc = "return" /\ an.op = "_build_wind_rose"

(* distance on the circle, in hundredths of a degree, from a bearing to the *)
(* compass point of sector k (k from 1)                                     *)
CircularDistance(bearing, k) ==
    LET d == (bearing - (k - 1) * 2250) % 36000
    IN  IF d <= 18000 THEN d ELSE 36000 - d

Nearest(bearing, k) ==
    \A q \in 1..16 : CircularDistance(bearing, k) <= CircularDistance(bearing, q)

OnlyNearest(bearing, k) ==
    \A q \in (1..16) \ {k} : CircularDistance(bearing, k) < CircularDistance(bearing, q)

RoseCounted == {i \in 1..Len(an.rows) : /\ ~an.rows[i].direction_deg.is_none
                                        /\ ~an.rows[i].speed_mps.is_none}

GenerationReturned ==
    an.pc = "return" /\ an.op = "_estimate_generation_mwh" /\ ~an.params.is_none

RatedTotal == an.params.turbine_count * an.params.rated_power_kw * 1000

(* C34: a point at exactly ratedSpeed within the operating envelope yields *)
(* turbineCount x ratedPowerKw, and a point whose speed is below cutIn or  *)
(* at or above cutOut yields zero power                                    *)
C34_PowerFollowsTheMeasuredSpeed ==
    GenerationReturned =>
        \A i \in 1..Len(an.rows) :
            ~an.rows[i].speed_mps.is_none =>
                /\ (/\ an.rows[i].speed_mps.value = an.params.rated_speed_mps
                    /\ _within_operating_envelope(an.rows[i], an.params))
                      => an.out.powers[i].power_kw = RatedTotal
                /\ (\/ an.rows[i].speed_mps.value < an.params.cut_in_speed_mps
                    \/ an.rows[i].speed_mps.value >= an.params.cut_out_speed_mps)
                      => an.out.powers[i].power_kw = 0

(* C34, amended: the power follows the speed corrected for air density,      *)
(* v * (rho / rho_ref) ** (1/3): a point within the operating envelope whose *)
(* corrected speed is at least ratedSpeed and below cutOut yields            *)
(* turbineCount x ratedPowerKw, which a point at exactly ratedSpeed does     *)
(* when its temperature or pressure is missing or its air is at least as     *)
(* dense as the reference; a point whose corrected speed is below cutIn or   *)
(* at or above cutOut yields zero power                                      *)
C34_PowerFollowsTheCorrectedSpeed ==
    GenerationReturned =>
        \A i \in 1..Len(an.rows) :
            ~an.rows[i].speed_mps.is_none =>
                LET row == an.rows[i]
                    within == _within_operating_envelope(row, an.params)
                    density == _air_density_kgm3(row, an.params.reference_air_density_kgm3)
                    corrected == Cube(row.speed_mps.value) * density
                    at(speed) == Cube(speed) * an.params.reference_air_density_kgm3
                IN  /\ (/\ within
                        /\ corrected >= at(an.params.rated_speed_mps)
                        /\ corrected < at(an.params.cut_out_speed_mps))
                          => an.out.powers[i].power_kw = RatedTotal
                    /\ (/\ within
                        /\ row.speed_mps.value = an.params.rated_speed_mps
                        /\ \/ row.temperature_c.is_none
                           \/ row.pressure_hpa.is_none
                           \/ /\ density >= an.params.reference_air_density_kgm3
                              /\ corrected < at(an.params.cut_out_speed_mps))
                          => an.out.powers[i].power_kw = RatedTotal
                    /\ (\/ corrected < at(an.params.cut_in_speed_mps)
                        \/ corrected >= at(an.params.cut_out_speed_mps))
                          => an.out.powers[i].power_kw = 0

C34_Witness ==
    /\ GenerationReturned
    /\ Len(an.rows) = 2
    /\ an.rows[1] = [speed_mps |-> Number(60), temperature_c |-> Number(300),
                     pressure_hpa |-> Number(900)]
    /\ an.out.powers[1].counted
    /\ an.out.powers[1].power_kw > 0 /\ an.out.powers[1].power_kw < RatedTotal
    /\ an.rows[2] = [speed_mps |-> Number(60), temperature_c |-> NoneNumber,
                     pressure_hpa |-> Number(900)]
    /\ an.out.powers[2].power_kw = RatedTotal

FramesReturned == an.pc = "return" /\ an.op = "_rows_to_frames"

(* the rows floored to the slot of frame k, and the frames before k whose *)
(* slot has such a row                                                    *)
ObservationsOf(k) ==
    {i \in 1..Len(an.rows) : _floor_to_step(an.rows[i].datetime, an.step) = an.out[k].datetime}

EarlierObserved(k) == {j \in 1..(k - 1) : ObservationsOf(j) # {}}

(* C31: the frame of a slot with an observation floored to it is flagged     *)
(* observed (10-minute step) or aggregated (coarser step) and carries such   *)
(* an observation; the frame of a slot without one is flagged gap_filled and *)
(* carries what the frame of the latest earlier slot with an observation     *)
(* carries, or null if there is no such slot; the slots are aligned_start,   *)
(* aligned_start + step, ... up to the end of the range                      *)
C31_FramesObservedOrGapFilled ==
    FramesReturned =>
        /\ Len(an.out) = _rows_to_frames(an.start_local, an.end_local, an.step)
        /\ \A k \in 1..Len(an.out) :
              /\ an.out[k].datetime
                    = _floor_to_step(an.start_local, an.step) + (k - 1) * _step_delta(an.step)
              /\ IF ObservationsOf(k) # {}
                 THEN /\ an.out[k].qualityFlag
                            = (IF an.step = "10m" THEN "observed" ELSE "aggregated")
                      /\ \E i \in ObservationsOf(k) : an.out[k].speed = an.rows[i].speed
                 ELSE /\ an.out[k].qualityFlag = "gap_filled"
                      /\ IF EarlierObserved(k) = {}
                         THEN an.out[k].speed = NoneNumber
                         ELSE LET latest == CHOOSE j \in EarlierObserved(k) :
                                                \A q \in EarlierObserved(k) : q <= j
                              IN  an.out[k].speed = an.out[latest].speed

C31_Witness ==
    /\ FramesReturned
    /\ an.step = "1h"
    /\ Len(an.out) = 4
    /\ an.out[1].qualityFlag = "gap_filled" /\ an.out[1].speed = NoneNumber
    /\ an.out[2].qualityFlag = "aggregated" /\ ~an.out[2].speed.is_none
    /\ an.out[3].qualityFlag = "gap_filled" /\ an.out[3].speed = an.out[2].speed
    /\ an.out[4].qualityFlag = "gap_filled" /\ an.out[4].speed = an.out[2].speed

====
